---- MODULE Spec2Model ----
(***************************************************************************)
(* A model of pandas-checks: the options registry (options.py), the        *)
(* modification applier and check dispatcher (run_checks.py), the renderer *)
(* (display.py), the assertion engine and the .check accessor methods of   *)
(* DataFrameChecks.py and SeriesChecks.py.                                 *)
(***************************************************************************)
EXTENDS Integers, Sequences, FiniteSets, TLC

\* options      the pdchecks options registered with pandas: name -> value
\* is_terminal  whether the code runs in a terminal, not in IPython/Jupyter
\* obj          the DataFrame or Series the method chain holds
\* last         the call under way: method, arguments, and its outcome
\* muted        history of the chain: .check.disable_checks() was called with
\*              its default arguments and .check.enable_checks() not since
VARIABLES options, is_terminal, obj, last, muted

vars == <<options, is_terminal, obj, last, muted>>

\* Longest keyword list handed to set_format in one call.
MaxKwargs == 2

-----------------------------------------------------------------------------
(* Python values.  Every value is a record of one shape so that values of   *)
(* different Python types can be compared: ty is the Python type, s the     *)
(* text of a str (or the name of a function or dict), n the number of an    *)
(* int or bool.                                                             *)

PyBool(b) == [ty |-> "bool", s |-> "", n |-> IF b THEN 1 ELSE 0]

PyInt(i) == [ty |-> "int", s |-> "", n |-> i]

PyStr(t) == [ty |-> "str", s |-> t, n |-> 0]

PyNone == [ty |-> "NoneType", s |-> "", n |-> 0]

PyFunction(name) == [ty |-> "function", s |-> name, n |-> 0]

PyDict(name) == [ty |-> "dict", s |-> name, n |-> 0]

\* Python's callable(): of the values above only functions are callable.
callable_or_str(v) == v.ty \in {"function", "str"}

callable(v) == v.ty = "function"

\* Python's isinstance(v, cls); bool is a subclass of int.
isinstance(v, cls) == \/ v.ty = cls
                      \/ cls = "int" /\ v.ty = "bool"

\* Python's truth value of v.
truthy(v) == CASE v.ty \in {"bool", "int"} -> v.n # 0
               [] v.ty = "str" -> v.s # ""
               [] v.ty = "NoneType" -> FALSE
               [] OTHER -> TRUE

-----------------------------------------------------------------------------
(* options.py: the registry of pdchecks options.                            *)

\* An option name as the caller writes it: with or without the "pdchecks."
\* prefix.
OptName(prefixed, key) == [prefixed |-> prefixed, key |-> key]

ModeKeys == {"enable_checks", "enable_asserts"}

OutputKeys == {"print_to_stdout", "custom_print_fn"}

FormatKeys == {"precision", "table_row_hover_style", "use_emojis",
               "indent_table_terminal", "indent_table_plot_ipython",
               "check_text_tag", "table_title_tag", "plot_title_tag",
               "fail_message_fg_color", "fail_message_bg_color",
               "pass_message_fg_color", "pass_message_bg_color"}

OptionKeys == ModeKeys \cup OutputKeys \cup FormatKeys

\* The validator of custom_print_fn: True for a callable, False for anything
\* else, None included.
_is_callable(object) == IF callable(object) THEN TRUE ELSE FALSE

\* The validator each option is registered with.
validator(key) ==
    CASE key \in {"enable_checks", "enable_asserts", "print_to_stdout",
                  "use_emojis"} -> "is_instance_factory(bool)"
      [] key = "custom_print_fn" -> "_is_callable"
      [] key = "precision" -> "is_nonnegative_int"
      [] key = "table_row_hover_style" -> "is_instance_factory(dict)"
      [] key \in {"indent_table_terminal", "indent_table_plot_ipython"}
           -> "is_instance_factory(int)"
      [] OTHER -> "is_instance_factory(str)"

\* The default value each option is registered with.
default_value(key) ==
    CASE key \in {"enable_checks", "enable_asserts", "print_to_stdout",
                  "use_emojis"} -> PyBool(TRUE)
      [] key = "custom_print_fn" -> PyNone
      [] key = "precision" -> PyInt(2)
      [] key = "table_row_hover_style" -> PyDict("tr:hover")
      [] key = "indent_table_terminal" -> PyInt(4)
      [] key = "indent_table_plot_ipython" -> PyInt(30)
      [] key \in {"check_text_tag", "table_title_tag", "plot_title_tag"}
           -> PyStr("h5")
      [] key = "fail_message_fg_color" -> PyStr("white")
      [] key = "fail_message_bg_color" -> PyStr("red")
      [] key = "pass_message_fg_color" -> PyStr("black")
      [] OTHER -> PyStr("green")

\* What calling an option's validator on a value does inside pandas'
\* set_option and register_option: the pandas validators raise ValueError on
\* a value they reject; the return value of a validator is not looked at, so
\* _is_callable, which returns False instead of raising, stops nothing.
validate(key, value) ==
    LET v == validator(key) IN
    CASE v = "is_instance_factory(bool)" ->
           IF isinstance(value, "bool") THEN "none" ELSE "ValueError"
      [] v = "is_instance_factory(int)" ->
           IF isinstance(value, "int") THEN "none" ELSE "ValueError"
      [] v = "is_instance_factory(str)" ->
           IF isinstance(value, "str") THEN "none" ELSE "ValueError"
      [] v = "is_instance_factory(dict)" ->
           IF isinstance(value, "dict") THEN "none" ELSE "ValueError"
      [] v = "is_nonnegative_int" ->
           IF \/ value = PyNone
              \/ isinstance(value, "int") /\ value.n >= 0
           THEN "none" ELSE "ValueError"
      [] OTHER -> LET verdict == _is_callable(value) IN "none"

\* The outcome of an options operation: the exception it raised ("none" when
\* it returned) and the registry it leaves.
OptResult(exc, opts) == [exc |-> exc, options |-> opts]

\* pd.set_option on a registered key: validate, then store.
pd_set_option(opts, key, value) ==
    IF validate(key, value) = "none"
    THEN OptResult("none", [opts EXCEPT ![key] = value])
    ELSE OptResult(validate(key, value), opts)

_set_option_ignoring_unknown(opts, option, value) ==
    IF option.key \in DOMAIN opts
    THEN pd_set_option(opts, option.key, value)
    ELSE OptResult("none", opts)

_set_option(opts, option, value) ==
    \* the fully qualified name is "pdchecks." + option.key in both cases;
    \* it is registered when option.key is a key of the registry
    IF option.key \in DOMAIN opts
    THEN pd_set_option(opts, option.key, value)
    ELSE OptResult("AttributeError", opts)

\* Register an option, or reset its value when it is registered already.
_register_option_keeping_value(opts, key) ==
    IF key \in DOMAIN opts
    THEN opts
    ELSE [k \in DOMAIN opts \cup {key} |->
            IF k = key THEN default_value(key) ELSE opts[k]]

_register_option(opts, key) ==
    IF key \in DOMAIN opts
    THEN pd_set_option(opts, key, default_value(key)).options
    ELSE [k \in DOMAIN opts \cup {key} |->
            IF k = key THEN default_value(key) ELSE opts[k]]

RECURSIVE RegisterAll(_, _)
RegisterAll(opts, keys) ==
    IF keys = {} THEN opts
    ELSE LET k == CHOOSE x \in keys : TRUE
         IN RegisterAll(_register_option(opts, k), keys \ {k})

_initialize_format_options(opts) == RegisterAll(opts, FormatKeys)

reset_format(opts) == OptResult("none", _initialize_format_options(opts))

_initialize_options(opts) ==
    _initialize_format_options(RegisterAll(opts, ModeKeys \cup OutputKeys))

\* set_format(**kwargs): the keyword arguments are set one after the other,
\* in the order given; the first one that raises ends the call.
RECURSIVE set_format(_, _)
set_format(opts, kwargs) ==
    IF kwargs = <<>> THEN OptResult("none", opts)
    ELSE LET r == _set_option(opts, OptName(FALSE, kwargs[1].arg), kwargs[1].value)
         IN IF r.exc # "none" THEN r
            ELSE set_format(r.options, Tail(kwargs))

\* set_mode(enable_checks, enable_asserts): the two options are set one
\* after the other.
set_mode_all_or_nothing(opts, enable_checks, enable_asserts) ==
    IF validate("enable_checks", enable_checks) # "none"
    THEN OptResult(validate("enable_checks", enable_checks), opts)
    ELSE IF validate("enable_asserts", enable_asserts) # "none"
    THEN OptResult(validate("enable_asserts", enable_asserts), opts)
    ELSE OptResult("none", [opts EXCEPT !["enable_checks"] = enable_checks,
                                        !["enable_asserts"] = enable_asserts])

set_mode_checks_only(opts, enable_checks, enable_asserts) ==
    _set_option(opts, OptName(FALSE, "enable_checks"), enable_checks)

set_mode(opts, enable_checks, enable_asserts) ==
    LET r == _set_option(opts, OptName(FALSE, "enable_checks"), enable_checks)
    IN IF r.exc # "none" THEN r
       ELSE _set_option(r.options, OptName(FALSE, "enable_asserts"), enable_asserts)

get_mode_asserts_follow_checks(opts) ==
    [enable_checks |-> opts["enable_checks"],
     enable_asserts |-> IF truthy(opts["enable_checks"]) THEN opts["enable_asserts"]
                        ELSE PyBool(FALSE)]

get_mode(opts) == [enable_checks |-> opts["enable_checks"],
                   enable_asserts |-> opts["enable_asserts"]]

enable_checks(opts, enable_asserts) == set_mode(opts, PyBool(TRUE), enable_asserts)

disable_checks(opts, enable_asserts) == set_mode(opts, PyBool(FALSE), enable_asserts)

set_custom_print_fn(opts, custom_print_fn, print_to_stdout) ==
    LET r == _set_option(opts, OptName(FALSE, "custom_print_fn"), custom_print_fn)
    IN IF r.exc # "none" THEN r
       ELSE IF print_to_stdout # PyNone
            THEN _set_option(r.options, OptName(FALSE, "print_to_stdout"), print_to_stdout)
            ELSE r

-----------------------------------------------------------------------------
(* The data a chain carries: a DataFrame or a Series, as a list of column   *)
(* names (one name for a Series) and a list of rows of cells.               *)

Cell(v) == [isna |-> FALSE, v |-> v]

NaN == [isna |-> TRUE, v |-> 0]

DataFrame(columns, rows) == [kind |-> "DataFrame", columns |-> columns, rows |-> rows]

Series(name, values) ==
    [kind |-> "Series", columns |-> <<name>>,
     rows |-> [i \in 1..Len(values) |-> <<values[i]>>]]

\* The value a call has when it produces no data.
NoData == [kind |-> "None", columns |-> <<>>, rows |-> <<>>]

Range(f) == {f[i] : i \in DOMAIN f}

ColIndex(data, c) == CHOOSE i \in 1..Len(data.columns) : data.columns[i] = c

\* The cells of column c, top to bottom.
Column(data, c) == [i \in 1..Len(data.rows) |-> data.rows[i][ColIndex(data, c)]]

\* All the cells of data.
Cells(data) == UNION {Range(data.rows[i]) : i \in 1..Len(data.rows)}

RowHasNull(row) == \E j \in 1..Len(row) : row[j].isna

\* pandas dropna(): the rows without a null in any column.
dropna(data) == [data EXCEPT !.rows = SelectSeq(data.rows, LAMBDA row : ~RowHasNull(row))]

\* pandas isna().any().any() on a DataFrame, isna().any() on a Series.
isna_any(data) == \E c \in Cells(data) : c.isna

\* pd.DataFrame(series): the same cells as a one-column DataFrame.
pd_DataFrame(data) == [data EXCEPT !.kind = "DataFrame"]

\* A subset argument: None, a column name or a list of column names.
SubsetNone == [kind |-> "None", cols |-> <<>>]

SubsetStr(c) == [kind |-> "str", cols |-> <<c>>]

SubsetList(cols) == [kind |-> "list", cols |-> cols]

\* Python's truth value of a subset argument.
subset_truthy(subset) ==
    CASE subset.kind = "None" -> FALSE
      [] subset.kind = "str" -> subset.cols[1] # ""
      [] OTHER -> subset.cols # <<>>

\* The outcome of a step that computes a value: the exception raised ("none"
\* when it returned), the value, and the events that happened, in order.
Step(exc, val, ev) == [exc |-> exc, val |-> val, ev |-> ev]

\* data[subset]: a Series for a column name, a DataFrame for a list of
\* names, KeyError for a name that is not a column.
getitem(data, subset) ==
    IF \E i \in 1..Len(subset.cols) : subset.cols[i] \notin Range(data.columns)
    THEN Step("KeyError", NoData, <<>>)
    ELSE Step("none",
              [kind |-> IF subset.kind = "str" THEN "Series" ELSE "DataFrame",
               columns |-> subset.cols,
               rows |-> [i \in 1..Len(data.rows) |->
                           [j \in 1..Len(subset.cols) |->
                              data.rows[i][ColIndex(data, subset.cols[j])]]]],
              <<>>)

-----------------------------------------------------------------------------
(* display.py: the renderer.                                                *)
(*                                                                          *)
(* A Python str is a list of tokens (words, blanks, glyphs); the empty list *)
(* is the empty string, which stands for None too where the code only asks  *)
(* for the truth value.  What is printed or displayed is a list of          *)
(* segments, each a text with the foreground and background colour it is    *)
(* wrapped in (None for no colour).                                         *)

\* The glyphs the emoji package replaces.  A glyph token is written by its
\* code point.
EmojiGlyphs == {"U+1F3DB", "U+1F4CF", "U+1F5C2", "U+1F43C", "U+1FA7A", "U+2B06",
                "U+2B07", "U+2139", "U+1F4BE", "U+1F46F", "U+1F47B", "U+1F4D0",
                "U+1F4E6", "U+23F1", "U+2714", "U+1F31F", "U+1F9EE", "U+2699",
                "U+1F9E6"}

Segment(text, fg, bg) == [text |-> text, fg |-> fg, bg |-> bg]

\* A str without colour as what is printed: nothing for the empty string.
Plain(text) == IF text = <<>> THEN <<>> ELSE <<Segment(text, PyNone, PyNone)>>

\* An event of a call: a user function invoked, a computation run, or
\* something sent to an output channel.
\*   e      "print" (standard output), "display" (IPython display),
\*          "print_fn" (the custom print function), or the step that ran
\*   form   "str", "Markdown", "HTML", "table", "image" or ""
\*   tag    the HTML tag of a Markdown line
\*   n      the indent of a table or image, else 0
\*   segs   the text
\*   table  the table shown, else NoData
Event(e, form, tag, n, segs, table) ==
    [e |-> e, form |-> form, tag |-> tag, n |-> n, segs |-> segs, table |-> table]

\* An event that is a step of the computation, not output.
Ran(e) == Event(e, "", "", 0, <<>>, NoData)

OutputEvents == {"print", "display", "print_fn"}

RECURSIVE lstrip(_)
lstrip(text) == IF text # <<>> /\ Head(text) = " " THEN lstrip(Tail(text)) ELSE text

RECURSIVE rstrip(_)
rstrip(text) ==
    IF text # <<>> /\ text[Len(text)] = " "
    THEN rstrip(SubSeq(text, 1, Len(text) - 1)) ELSE text

strip(text) == lstrip(rstrip(text))

\* The colours a line is rendered with: the colors dict of _render_text.
Colors(text_color, text_background_color, lead_in_text_color, lead_in_background_color) ==
    [text_color |-> text_color, text_background_color |-> text_background_color,
     lead_in_text_color |-> lead_in_text_color,
     lead_in_background_color |-> lead_in_background_color]

NoColors == Colors(PyNone, PyNone, PyNone, PyNone)

\* color.replace("on_", "") for the colour names of the model.
replace_on(color) ==
    CASE color.s = "on_red" -> PyStr("red")
      [] color.s = "on_green" -> PyStr("green")
      [] color.s = "on_yellow" -> PyStr("yellow")
      [] OTHER -> color

_format_background_color(color) ==
    IF ~truthy(color) THEN color
    ELSE CASE color.s = "red" -> PyStr("on_red")
           [] color.s = "green" -> PyStr("on_green")
           [] color.s = "yellow" -> PyStr("on_yellow")
           [] color.s = "blue" -> PyStr("on_blue")
           [] OTHER -> color

_display_router(opts, data, data_for_print_fn, bypass_print_fn) ==
    (IF truthy(opts["print_to_stdout"])
     THEN <<[data EXCEPT !.e = "display"]>> ELSE <<>>)
    \o
    (IF callable(opts["custom_print_fn"]) /\ ~bypass_print_fn
     THEN <<IF data_for_print_fn # <<>>
            THEN Event("print_fn", "str", "", 0, Plain(data_for_print_fn), NoData)
            ELSE [data EXCEPT !.e = "print_fn"]>>
     ELSE <<>>)

\* text is what print() receives, as an event; text_for_print_fn is a str.
_print_router(opts, text, custom_print_fn_only, text_for_print_fn, bypass_print_fn) ==
    (IF truthy(opts["print_to_stdout"]) /\ ~custom_print_fn_only
     THEN <<[text EXCEPT !.e = "print"]>> ELSE <<>>)
    \o
    (IF callable(opts["custom_print_fn"]) /\ ~bypass_print_fn
     THEN <<IF text_for_print_fn # <<>>
            THEN Event("print_fn", "str", "", 0, Plain(text_for_print_fn), NoData)
            ELSE [text EXCEPT !.e = "print_fn"]>>
     ELSE <<>>)

_filter_emojis(opts, text) ==
    IF truthy(opts["use_emojis"]) THEN text
    ELSE strip(SelectSeq(text, LAMBDA g : g \notin EmojiGlyphs))

\* The lead-in of a Markdown line: a coloured span followed by a colon.
_lead_in(opts, lead_in, foreground, background) ==
    IF lead_in # <<>>
    THEN <<Segment(strip(_filter_emojis(opts, lead_in)), foreground, background),
           Segment(<<":">>, PyNone, PyNone)>>
    ELSE <<>>

\* termcolor's colored(text, color, on_color).
colored(text, color, on_color) == Segment(text, color, on_color)

_render_text(opts, text, tag, lead_in, colors, bypass_print_fn) ==
    IF text = <<>> THEN <<>>
    ELSE
    LET text_for_print_fn ==
            (IF lead_in # <<>> THEN _filter_emojis(opts, lead_in) \o <<": ">> ELSE <<>>)
            \o _filter_emojis(opts, text)
        text_color == colors.text_color
        text_background_color ==
            IF truthy(colors.text_background_color)
            THEN replace_on(colors.text_background_color)
            ELSE colors.text_background_color
        lead_in_text_color == colors.lead_in_text_color
        lead_in_background_color ==
            IF truthy(colors.lead_in_background_color)
            THEN replace_on(colors.lead_in_background_color)
            ELSE colors.lead_in_background_color
    IN IF is_terminal
       THEN LET lead_in_rendered ==
                    IF lead_in # <<>>
                    THEN <<colored(_filter_emojis(opts, lead_in), text_color,
                                   _format_background_color(lead_in_background_color)),
                           Segment(<<": ">>, PyNone, PyNone)>>
                    ELSE <<>>
            IN _print_router(opts, Event("print", "str", "", 0, <<>>, NoData),
                             FALSE, <<>>, TRUE)
               \o
               _print_router(opts,
                   Event("print", "str", "", 0,
                         lead_in_rendered
                         \o <<colored(_filter_emojis(opts, text), text_color,
                                      _format_background_color(text_background_color))>>,
                         NoData),
                   FALSE, text_for_print_fn, FALSE)
       ELSE LET lead_in_rendered ==
                    _lead_in(opts, lead_in, lead_in_text_color, lead_in_background_color)
            IN _display_router(opts,
                   Event("display", "Markdown", tag.s, 0,
                         (IF lead_in_rendered # <<>>
                          THEN lead_in_rendered \o <<Segment(<<" ">>, PyNone, PyNone)>>
                          ELSE <<>>)
                         \o <<Segment(_filter_emojis(opts, text), text_color,
                                      text_background_color)>>,
                         NoData),
                   text_for_print_fn, bypass_print_fn)

_display_line(opts, line, lead_in, colors) ==
    _render_text(opts, line, opts["check_text_tag"], lead_in, colors, FALSE)

_display_table_title(opts, line) ==
    _render_text(opts, line, opts["table_title_tag"], <<>>, NoColors, TRUE)

_display_plot_title(opts, line) ==
    _render_text(opts, line, opts["plot_title_tag"], <<>>, NoColors, TRUE)

_print_table(opts, table, title, custom_print_fn_only) ==
    _print_router(opts,
        Event("print", "table", "", opts["indent_table_terminal"].n,
              IF title # <<>> THEN Plain(_filter_emojis(opts, title)) ELSE <<>>,
              table),
        custom_print_fn_only, <<>>, FALSE)

_render_html_with_indent(opts, object_as_html) ==
    _display_router(opts,
        [object_as_html EXCEPT !.n = opts["indent_table_plot_ipython"].n],
        <<>>, TRUE)

_display_table(opts, table, title) ==
    (IF title # <<>> THEN _display_table_title(opts, title) ELSE <<>>)
    \o
    _render_html_with_indent(opts,
        Event("display", "HTML", "", 0, <<>>, pd_DataFrame(table)))
    \o
    _print_table(opts, table, title, TRUE)

_display_plot(opts) ==
    IF ~is_terminal
    THEN <<Ran("savefig")>>
         \o _display_router(opts,
                Event("display", "image", "", opts["indent_table_plot_ipython"].n,
                      <<>>, NoData),
                <<>>, TRUE)
    ELSE <<>>

\* A result that is not a table (a number, a list, a tuple, a str): its
\* text, the tokens of str(value), is kept in the columns field.
Scalar(text) == [kind |-> "scalar", columns |-> text, rows |-> <<>>]

\* Python's truth value of such a result: 0, [] and "" are falsy.
scalar_truthy(data) == data.columns \notin {<<>>, <<"0">>, <<"[", "]">>}

is_table(data) == data.kind \in {"DataFrame", "Series"}

\* Anything that is not a table is shown on one line in IPython and in the
\* terminal alike.
_display_check(opts, data, name) ==
    IF ~is_table(data)
    THEN _display_line(opts,
             IF name # <<>> THEN name \o <<": ">> \o data.columns
             ELSE IF scalar_truthy(data) THEN data.columns ELSE <<>>,
             <<>>, NoColors)
    ELSE IF ~is_terminal THEN _display_table(opts, data, name)
    ELSE _print_router(opts, Event("print", "str", "", 0, <<>>, NoData),
                       FALSE, <<>>, TRUE)
         \o _print_table(opts, data, name, FALSE)

-----------------------------------------------------------------------------
(* run_checks.py: the modification applier and the check dispatcher.        *)

\* The functions a caller passes as fn.  A value that is not a function (the
\* str "df*2") is not callable.
\*   identity   lambda df: df
\*   dropna     lambda df: df.dropna()
\*   iloc[1:]   lambda df: df.iloc[1:]
\*   missing    lambda df: df["missing"], which raises KeyError
call_fn(fn, data) ==
    CASE fn.s = "identity" -> Step("none", data, <<Ran("fn")>>)
      [] fn.s = "missing" -> Step("KeyError", NoData, <<Ran("fn")>>)
      [] ~is_table(data) -> Step("AttributeError", NoData, <<Ran("fn")>>)
      [] fn.s = "dropna" -> Step("none", dropna(data), <<Ran("fn")>>)
      [] OTHER -> Step("none", [data EXCEPT !.rows = IF @ = <<>> THEN @ ELSE Tail(@)],
                       <<Ran("fn")>>)

\* f[subset], where f is the outcome of fn(data).
subscript(f, subset) ==
    IF f.exc # "none" THEN f
    ELSE IF ~is_table(f.val) THEN Step("TypeError", NoData, f.ev \o <<Ran("subset")>>)
    ELSE [getitem(f.val, subset) EXCEPT !.ev = f.ev \o <<Ran("subset")>>]

\* run_checks._apply_modifications: fn(data)[subset] when subset is truthy,
\* fn(data) when it is not; a fn that is not callable raises TypeError.
_apply_modifications_subset_first(data, fn, subset) ==
    IF ~callable(fn) THEN Step("TypeError", NoData, <<>>)
    ELSE IF subset_truthy(subset)
    THEN [call_fn(fn, getitem(data, subset).val) EXCEPT !.ev = <<Ran("subset")>> \o @]
    ELSE call_fn(fn, data)

_apply_modifications(data, fn, subset) ==
    IF ~callable(fn) THEN Step("TypeError", NoData, <<>>)
    ELSE IF subset_truthy(subset) THEN subscript(call_fn(fn, data), subset)
    ELSE call_fn(fn, data)

\* str(subset), the name a check is shown under when it has no check_name.
str_subset(subset) ==
    IF subset.kind = "str" THEN subset.cols
    ELSE <<"[">> \o subset.cols \o <<"]">>

-----------------------------------------------------------------------------
(* The check_fn lambdas of the checks: what each does with the modified     *)
(* data.                                                                    *)

Min(a, b) == IF a < b THEN a ELSE b

\* The step a check computation makes: it ran and gave val.
Computed(val) == Step("none", val, <<Ran("check_fn")>>)

Failed(exc) == Step(exc, NoData, <<Ran("check_fn")>>)

\* df.duplicated().sum(): the number of rows that repeat an earlier row.
duplicated_sum(data) ==
    Cardinality({i \in 1..Len(data.rows) : \E j \in 1..(i - 1) : data.rows[j] = data.rows[i]})

\* The dtype of a column of integers: int64, or float64 once it holds a null.
dtype_of(data, c) ==
    IF \E i \in 1..Len(data.rows) : Column(data, c)[i].isna THEN "float64" ELSE "int64"

\* A lambda the package passes as check_fn: f is its body as written in the
\* source, n the value of the n or max_rows the body names.
Lambda(f, n) == [f |-> f, n |-> n]

\* check_fn(data).  A Series has a shape of one number only; describe() is
\* given by the count row of its statistics, memory_usage() by eight bytes
\* for each cell, unique().tolist() by how many values the list has and
\* value_counts() by one row for each distinct value that is not null.
call_check_fn(check_fn, data) ==
    IF ~is_table(data)
    THEN IF check_fn.f = "df" THEN Computed(data) ELSE Failed("AttributeError")
    ELSE
    CASE check_fn.f = "df" -> Computed(data)
      [] check_fn.f = "df.shape[0]" -> Computed(Scalar(<<ToString(Len(data.rows))>>))
      [] check_fn.f = "df.shape[1]" ->
           IF data.kind = "Series" THEN Failed("IndexError")
           ELSE Computed(Scalar(<<ToString(Len(data.columns))>>))
      [] check_fn.f = "df.shape" ->
           IF data.kind = "Series"
           THEN Computed(Scalar(<<"(", ToString(Len(data.rows)), ",", ")">>))
           ELSE Computed(Scalar(<<"(", ToString(Len(data.rows)), ", ",
                                  ToString(Len(data.columns)), ")">>))
      [] check_fn.f = "df.columns.tolist()" ->
           IF data.kind = "Series" THEN Failed("AttributeError")
           ELSE Computed(Scalar(<<"[">> \o data.columns \o <<"]">>))
      [] check_fn.f = "df.head(n)" ->
           Computed([data EXCEPT !.rows = SubSeq(@, 1, Min(check_fn.n, Len(@)))])
      [] check_fn.f = "df.tail(n)" ->
           Computed([data EXCEPT !.rows =
                        SubSeq(@, Len(@) - Min(check_fn.n, Len(@)) + 1, Len(@))])
      [] check_fn.f = "df.duplicated().sum()" ->
           Computed(Scalar(<<ToString(duplicated_sum(data))>>))
      [] check_fn.f \in {"df.dtypes", "s.dtype"} ->
           IF data.kind = "Series"
           THEN Computed(Scalar(<<dtype_of(data, data.columns[1])>>))
           ELSE Computed(Series("", [j \in 1..Len(data.columns) |->
                                        Cell(dtype_of(data, data.columns[j]))]))
      [] check_fn.f = "df.describe()" ->
           Computed([data EXCEPT !.rows =
              <<[j \in 1..Len(data.columns) |->
                   Cell(Cardinality({i \in 1..Len(data.rows) : ~data.rows[i][j].isna}))]>>])
      [] check_fn.f = "df.memory_usage()" ->
           Computed(Series("", [j \in 1..Len(data.columns) |-> Cell(8 * Len(data.rows))]))
      [] check_fn.f = "s.nunique()" ->
           Computed(Scalar(<<ToString(Cardinality({c \in Cells(data) : ~c.isna}))>>))
      [] check_fn.f = "s.unique().tolist()" ->
           Computed(Scalar(<<"[", ToString(Cardinality(Cells(data))), "]">>))
      [] OTHER -> \* s.value_counts().head(max_rows)
           LET n == Min(check_fn.n, Cardinality({c \in Cells(data) : ~c.isna}))
           IN Computed(Series("count", [i \in 1..n |-> Cell(i)]))

\* The check of the modified data m.val and the display of what it gives; a
\* modification or a check that raises ends the call.
display_result_catching(opts, ev, c, name) ==
    IF c.exc # "none" THEN Step("none", NoData, ev \o c.ev)
    ELSE Step("none", NoData, ev \o c.ev \o _display_check(opts, c.val, name))

display_result(opts, ev, c, name) ==
    IF c.exc # "none" THEN Step(c.exc, NoData, ev \o c.ev)
    ELSE Step("none", NoData, ev \o c.ev \o _display_check(opts, c.val, name))

check_modified(opts, m, check_fn, name) ==
    IF m.exc # "none" THEN m
    ELSE display_result(opts, m.ev, call_check_fn(check_fn, m.val), name)

\* check_fn is a Lambda; the default of the source is lambda df: df.
_check_data(opts, data, check_fn, modify_fn, subset, check_name) ==
    IF truthy(get_mode(opts).enable_checks)
    THEN check_modified(opts, _apply_modifications(data, modify_fn, subset), check_fn,
                        IF check_name # <<>> THEN check_name
                        ELSE IF subset_truthy(subset) THEN str_subset(subset)
                        ELSE <<>>)
    ELSE Step("none", NoData, <<>>)

-----------------------------------------------------------------------------
(* The arguments of a call of a .check method, and its outcome.             *)

\* The check_name of a call that passes none: the method's default is used.
DefaultName == <<"<default>">>

\* The arguments of a call that passes none but the required ones.
DefaultArgs ==
    [fn |-> PyFunction("identity"), subset |-> SubsetNone, check_name |-> DefaultName,
     object |-> NoData, n |-> 5, max_rows |-> 10, by_column |-> TRUE,
     column |-> SubsetStr("a"), title |-> <<>>,
     start_time |-> "t", elapsed |-> 0, units |-> "auto", lead_in |-> <<"Time elapsed">>,
     path |-> "", format |-> "", verbose |-> FALSE,
     kwargs |-> <<>>, enable_checks |-> PyBool(TRUE), enable_asserts |-> PyBool(TRUE),
     condition |-> PyFunction("true"), has_source |-> TRUE,
     fail_message |-> DefaultName, pass_message |-> DefaultName,
     raise_exception |-> TRUE, exception_to_raise |-> "",
     message_shows_condition |-> TRUE, assert_no_nulls |-> TRUE,
     bound |-> 0, or_equal_to |-> FALSE, nrows |-> 0, dtype |-> "int",
     custom_print_fn |-> PyNone, print_to_stdout |-> PyBool(TRUE),
     option |-> OptName(FALSE, "use_emojis"), value |-> PyBool(TRUE)]

\* check_name, or the method's default when the call passes none.
name_or(a, default) == IF a.check_name = DefaultName THEN default ELSE a.check_name

\* The outcome of a method: the exception it raised ("none" when it
\* returned) and its message, the object it returned, the events of the call
\* and the registry it leaves.
Outcome(exc, ret, ev, opts) ==
    [exc |-> exc, msg |-> <<>>, ret |-> ret, ev |-> ev, options |-> opts]

\* The outcome of a method that raises exc(msg).
Raise(exc, msg, ev, opts) ==
    [exc |-> exc, msg |-> msg, ret |-> NoData, ev |-> ev, options |-> opts]

\* A method that ends with "return self._obj" after the step r, unless r
\* raised.
ReturnSelf(self, r, opts) ==
    Outcome(r.exc, IF r.exc = "none" THEN self ELSE NoData, r.ev, opts)

\* The statements after the step r show ev, reached or not.
Then_also_when_raised(r, ev) == [r EXCEPT !.ev = @ \o ev]

\* The statements after the step r show ev; they are reached unless r raised.
Then(r, ev) == IF r.exc # "none" THEN r ELSE [r EXCEPT !.ev = @ \o ev]

\* m.val.e(...), where m is the outcome of the modifications: the method e
\* is called on the modified data, which has it when it is a table ("" is
\* a method no data has).  form and tag say what the method is given.
call_method(m, e, form, tag) ==
    IF m.exc # "none" THEN m
    ELSE IF ~is_table(m.val) \/ e = "" THEN Step("AttributeError", NoData, m.ev)
    ELSE Step("none", NoData, m.ev \o <<Event(e, form, tag, 0, <<>>, m.val)>>)

-----------------------------------------------------------------------------
(* DataFrameChecks.py: the checks that are one call of _check_data:         *)
(* columns, describe, dtypes, function, head, memory_usage, ncols, ndups,   *)
(* nrows, print, shape and tail.                                            *)

\* The check_fn of each of them.  print(object=...) shows the object when it
\* is given (and truthy), else the first max_rows rows of the data.
DataFrameChecks_check_fn(op, a) ==
    CASE op = "columns" -> Lambda("df.columns.tolist()", 0)
      [] op = "describe" -> Lambda("df.describe()", 0)
      [] op = "dtypes" -> Lambda("df.dtypes", 0)
      [] op = "function" -> Lambda("df", 0)
      [] op = "head" -> Lambda("df.head(n)", a.n)
      [] op = "memory_usage" -> Lambda("df.memory_usage()", 0)
      [] op = "ncols" -> Lambda("df.shape[1]", 0)
      [] op = "ndups" -> Lambda("df.duplicated().sum()", 0)
      [] op = "nrows" -> Lambda("df.shape[0]", 0)
      [] op = "print" -> IF a.object # NoData THEN Lambda("df", 0)
                         ELSE Lambda("df.head(n)", a.max_rows)
      [] op = "shape" -> Lambda("df.shape", 0)
      [] OTHER -> Lambda("df.tail(n)", a.n)

\* The check_name each of them hands to _check_data.
DataFrameChecks_check_name(op, a) ==
    CASE op \in {"columns", "ncols"} -> name_or(a, <<"U+1F3DB", " ", "Columns">>)
      [] op = "describe" -> name_or(a, <<"U+1F4CF", " ", "Distributions">>)
      [] op = "dtypes" -> name_or(a, <<"U+1F5C2", " ", "Data types">>)
      [] op = "head" ->
           IF name_or(a, <<>>) # <<>> THEN name_or(a, <<>>)
           ELSE <<"U+2B06", " ", "First", " ", ToString(a.n), " ", "rows">>
      [] op = "memory_usage" -> name_or(a, <<"U+1F4BE", " ", "Memory usage">>)
      [] op = "ndups" ->
           IF name_or(a, <<>>) # <<>> THEN name_or(a, <<>>)
           ELSE IF subset_truthy(a.subset)
                THEN <<"U+1F46F", " ", "Rows with duplication in", " ">>
                     \o str_subset(a.subset)
                ELSE <<"U+1F46F", " ", "Duplicated rows">>
      [] op = "nrows" -> name_or(a, <<"U+2630", " ", "Rows">>)
      [] op = "shape" -> name_or(a, <<"U+1F4D0", " ", "Shape">>)
      [] op = "tail" ->
           IF name_or(a, <<>>) # <<>> THEN name_or(a, <<>>)
           ELSE <<"U+2B07", " ", "Last", " ", ToString(a.n), " ", "rows">>
      [] OTHER -> name_or(a, <<>>)

\* The method op: fn and subset apply to the data, or to the object print
\* is given.
DataFrameChecks_check(op, opts, self, a) ==
    ReturnSelf(self,
        _check_data(opts,
                    IF op = "print" /\ a.object # NoData THEN a.object ELSE self,
                    DataFrameChecks_check_fn(op, a), a.fn, a.subset,
                    DataFrameChecks_check_name(op, a)),
        opts)

DataFrameChecks_get_mode(opts, self, a) ==
    Outcome("none", self,
            _display_line(opts,
                <<"{", "enable_checks", ": ", ToString(truthy(get_mode(opts).enable_checks)),
                  ", ", "enable_asserts", ": ", ToString(truthy(get_mode(opts).enable_asserts)),
                  "}">>,
                name_or(a, <<"U+1F43C", "U+1FA7A", " ", "Pandas Checks mode">>),
                NoColors),
            opts)

-----------------------------------------------------------------------------
(* timer.py                                                                 *)

\* The == of two floats: nan is equal to nothing, itself included.
float_eq(x, y) == x # "nan" /\ y # "nan" /\ x = y

\* The time a timer was started at is "nan" (the timer was started with
\* checks disabled) or a time stamp; elapsed is time() minus the time stamp,
\* in milliseconds.
print_time_elapsed_any_units(opts, start_time, elapsed, lead_in, units) ==
    IF truthy(get_mode(opts).enable_checks)
    THEN Step("none", NoData,
              _display_line(opts, lead_in \o <<":", " ", ToString(elapsed), " ", units>>,
                            <<>>, NoColors))
    ELSE Step("none", NoData, <<>>)

print_time_elapsed(opts, start_time, elapsed, lead_in, units) ==
    IF truthy(get_mode(opts).enable_checks)
    THEN LET not_started ==
                 IF float_eq(start_time, "nan")
                 THEN _display_line(opts, <<"Timer hasn't been started. Call start_timer() first">>,
                                    <<>>, NoColors)
                 ELSE <<>>
             \* a comparison with nan is False
             auto == CASE start_time = "nan" -> "milliseconds"
                       [] elapsed > 60 * 60 * 1000 -> "hours"
                       [] elapsed > 60 * 1000 -> "minutes"
                       [] elapsed >= 1000 -> "seconds"
                       [] OTHER -> "milliseconds"
             u == IF units = "auto" THEN auto ELSE units
             shown == IF start_time = "nan" THEN <<"nan">>
                      ELSE CASE u \in {"hours", "h"} -> <<ToString(elapsed), "/3600000">>
                             [] u \in {"minutes", "m"} -> <<ToString(elapsed), "/60000">>
                             [] u \in {"milliseconds", "ms"} -> <<ToString(elapsed)>>
                             [] OTHER -> <<ToString(elapsed), "/1000">>
         IN IF u \notin {"hours", "h", "minutes", "m", "milliseconds", "ms", "seconds", "s"}
            THEN Step("ValueError", NoData, not_started)
            ELSE Step("none", NoData,
                      not_started \o
                      _display_line(opts,
                          (IF lead_in # <<>> THEN lead_in \o <<":">>
                           ELSE <<"U+23F1", " ", "Time elapsed", ":">>)
                          \o <<" ">> \o shown \o <<" ", u>>,
                          <<>>, NoColors))
    ELSE Step("none", NoData, <<>>)

\* start_timer(verbose): "nan" with checks disabled, else the time stamp.
start_timer(opts, verbose) ==
    IF ~truthy(get_mode(opts).enable_checks) THEN Step("none", "nan", <<>>)
    ELSE Step("none", "t",
              IF verbose
              THEN _display_line(opts, <<"U+23F1", " ", "Started timer at", ": ", "t">>,
                                 <<>>, NoColors)
              ELSE <<>>)

-----------------------------------------------------------------------------
(* SeriesChecks.py: the checks that are one call of _check_data: dtype,     *)
(* function, nunique, shape, unique and value_counts.                       *)

SeriesChecks_check_fn(op, a) ==
    CASE op = "dtype" -> Lambda("s.dtype", 0)
      [] op = "function" -> Lambda("df", 0)
      [] op = "nunique" -> Lambda("s.nunique()", 0)
      [] op = "shape" -> Lambda("df.shape", 0)
      [] op = "unique" -> Lambda("s.unique().tolist()", 0)
      [] OTHER -> Lambda("s.value_counts().head(max_rows)", a.max_rows)

\* The check_name a method of the Series accessor hands on: to _check_data,
\* or to the method of the DataFrame accessor it calls.
SeriesChecks_check_name(op, self, a) ==
    CASE op = "describe" -> name_or(a, <<"U+1F4CF", " ", "Distribution">>)
      [] op = "dtype" -> name_or(a, <<"U+1F5C2", " ", "Data type">>)
      [] op = "get_mode" -> name_or(a, <<"U+2699", " ", "Pandas Checks mode">>)
      [] op = "info" -> name_or(a, <<"U+2139", " ", "Series info">>)
      [] op = "memory_usage" -> name_or(a, <<"U+1F4BE", " ", "Memory usage">>)
      [] op = "nnulls" -> name_or(a, <<"U+1F47B", " ", "Rows with NaNs">>)
      [] op = "nrows" -> name_or(a, <<"U+2630", " ", "Rows">>)
      [] op = "nunique" ->
           IF name_or(a, <<>>) # <<>> THEN name_or(a, <<>>)
           ELSE <<"U+1F31F", " ", "Unique values in", " ", self.columns[1]>>
      [] op = "shape" -> name_or(a, <<"U+1F4D0", " ", "Shape">>)
      [] op = "unique" ->
           IF name_or(a, <<>>) # <<>> THEN name_or(a, <<>>)
           ELSE <<"U+1F31F", " ", "Unique values of", " ", self.columns[1]>>
      [] op = "value_counts" ->
           IF name_or(a, <<>>) # <<>> THEN name_or(a, <<>>)
           ELSE IF a.max_rows # 0
                THEN <<"U+1F9EE", " ", "Value counts, first", " ",
                       ToString(a.max_rows), " ", "values">>
                ELSE <<"U+1F9EE", " ", "Value counts">>
      [] OTHER -> name_or(a, <<>>)

SeriesChecks_check(op, opts, self, a) ==
    ReturnSelf(self,
        _check_data(opts, self, SeriesChecks_check_fn(op, a), a.fn, SubsetNone,
                    SeriesChecks_check_name(op, self, a)),
        opts)

-----------------------------------------------------------------------------
(* DataFrameChecks.py: the checks with a gate of their own.                 *)

DataFrameChecks_hist(opts, self, a) ==
    IF truthy(get_mode(opts).enable_checks) /\ ~is_terminal
    THEN ReturnSelf(self,
             Then([call_method(_apply_modifications(self, a.fn, a.subset), "hist", "", "")
                     EXCEPT !.ev =
                        _display_plot_title(opts,
                            IF name_or(a, <<>>) # <<>> THEN name_or(a, <<>>)
                            ELSE IF subset_truthy(a.subset) /\ Len(a.subset.cols) = 1
                                 THEN <<"U+1F4CF", " ", "Distribution">>
                                 ELSE <<"U+1F4CF", " ", "Distributions">>) \o @],
                  _display_plot(opts)),
             opts)
    ELSE Outcome("none", self, <<>>, opts)

\* DataFrame.info() writes to standard output itself.
DataFrameChecks_info(opts, self, a) ==
    IF truthy(get_mode(opts).enable_checks)
    THEN ReturnSelf(self,
             [call_method(_apply_modifications(self, a.fn, a.subset), "print", "info", "")
                EXCEPT !.ev =
                   (IF name_or(a, <<"U+2139", " ", "Info">>) # <<>>
                    THEN _display_table_title(opts, name_or(a, <<"U+2139", " ", "Info">>))
                    ELSE <<>>) \o @],
             opts)
    ELSE Outcome("none", self, <<>>, opts)

\* data.isna().sum(): the number of nulls of each column.
isna_sum(data) ==
    [j \in 1..Len(data.columns) |->
       Cell(Cardinality({i \in 1..Len(data.rows) : data.rows[i][j].isna}))]

\* data.isna().any(axis=1).sum() is the number of rows with a null in some
\* column.
na_counts(data, by_column) ==
    IF data.kind = "DataFrame" /\ ~by_column
    THEN Scalar(<<ToString(Cardinality({i \in 1..Len(data.rows) :
                                           RowHasNull(data.rows[i])}))>>)
    ELSE IF ~by_column THEN Scalar(<<ToString(isna_sum(data)[1].v)>>)
    ELSE Series("", isna_sum(data))

\* What nnulls reports of the modified data m.val: the table of the counts by
\* column through _check_data, the one count on a line.
nnulls_report(opts, self, a, m, check_name) ==
    IF m.exc # "none" THEN Outcome(m.exc, NoData, m.ev, opts)
    ELSE IF ~is_table(m.val) THEN Outcome("AttributeError", NoData, m.ev, opts)
    ELSE IF is_table(na_counts(m.val, a.by_column))
    THEN ReturnSelf(self,
             [_check_data(opts, na_counts(m.val, a.by_column), Lambda("df", 0),
                 PyFunction("identity"), SubsetNone,
                 IF subset_truthy(a.subset) /\ check_name = <<>>
                 THEN <<"U+1F47B", " ", "Rows with NaNs in", " ">>
                      \o str_subset(a.subset)
                 ELSE check_name)
              EXCEPT !.ev = m.ev \o <<Ran("check_fn")>> \o @],
             opts)
    ELSE Outcome("none", self,
             m.ev \o <<Ran("check_fn")>> \o
             _display_line(opts,
                 IF subset_truthy(a.subset) /\ check_name = <<>>
                 THEN <<"U+1F47B", " ", "Rows with NaNs in", " ">>
                      \o str_subset(a.subset) \o <<": ">>
                      \o na_counts(m.val, a.by_column).columns
                      \o <<" ", "out of", " ", ToString(Len(m.val.rows))>>
                 ELSE check_name \o <<": ">> \o na_counts(m.val, a.by_column).columns,
                 <<>>, NoColors),
             opts)

DataFrameChecks_nnulls(opts, self, a) ==
    IF ~truthy(get_mode(opts).enable_checks) THEN Outcome("none", self, <<>>, opts)
    ELSE nnulls_report(opts, self, a, _apply_modifications(self, a.fn, a.subset),
                       name_or(a, <<"U+1F47B", " ", "Rows with NaNs">>))

\* nunique, unique and value_counts apply fn, take the column and hand it to
\* the method of that name of the accessor of what they get: of a Series for
\* a column name; the DataFrame method called without column raises TypeError.
\* The method returns its object after the call r of a method of another
\* accessor, unless r raised; ev are the events before the call.
AfterDelegate(self, ev, r) ==
    [r EXCEPT !.ret = IF r.exc = "none" THEN self ELSE NoData, !.ev = ev \o @]

column_method(op, opts, self, a, m) ==
    IF m.exc # "none" THEN Outcome(m.exc, NoData, m.ev, opts)
    ELSE IF m.val.kind # "Series"
    THEN Outcome(IF is_table(m.val) THEN "TypeError" ELSE "AttributeError",
                 NoData, m.ev, opts)
    ELSE AfterDelegate(self, m.ev,
             SeriesChecks_check(op, opts, m.val,
                 [a EXCEPT !.fn = PyFunction("identity"),
                           !.check_name = name_or(a, <<>>)]))

DataFrameChecks_column_check(op, opts, self, a) ==
    IF truthy(get_mode(opts).enable_checks)
    THEN column_method(op, opts, self, a, _apply_modifications(self, a.fn, a.column))
    ELSE Outcome("none", self, <<>>, opts)

DataFrameChecks_plot_in_terminal(opts, self, a) ==
    IF truthy(get_mode(opts).enable_checks)
    THEN ReturnSelf(self,
             Then([call_method(_apply_modifications(self, a.fn, a.subset), "plot", "", "")
                     EXCEPT !.ev =
                        _display_plot_title(opts,
                            IF a.title = <<>> THEN name_or(a, <<>>) ELSE a.title) \o @],
                  _display_plot(opts)),
             opts)
    ELSE Outcome("none", self, <<>>, opts)

DataFrameChecks_plot(opts, self, a) ==
    IF truthy(get_mode(opts).enable_checks) /\ ~is_terminal
    THEN ReturnSelf(self,
             Then([call_method(_apply_modifications(self, a.fn, a.subset), "plot", "", "")
                     EXCEPT !.ev =
                        _display_plot_title(opts,
                            IF a.title = <<>> THEN name_or(a, <<>>) ELSE a.title) \o @],
                  _display_plot(opts)),
             opts)
    ELSE Outcome("none", self, <<>>, opts)

\* path is written by its extension (".csv" stands for any path that ends
\* with it); format is "" when None, and format_clean is
\* format.lower().replace(".", "").strip().
DataFrameChecks_write(opts, self, a) ==
    IF ~truthy(get_mode(opts).enable_checks) THEN Outcome("none", self, <<>>, opts)
    ELSE
    LET format_clean == CASE a.format = ".CSV " -> "csv"
                          [] a.format = ".parquet" -> "parquet"
                          [] OTHER -> a.format
    IN ReturnSelf(self,
           Then(call_method(_apply_modifications(self, a.fn, a.subset),
                    CASE a.path = ".csv" \/ format_clean = "csv" -> "to_csv"
                      [] a.path = ".feather" \/ format_clean = "feather" -> "to_feather"
                      [] a.path = ".parquet" \/ format_clean = "parquet" -> "to_parquet"
                      [] a.path = ".pkl" \/ format_clean = "pickle" -> "to_pickle"
                      [] a.path = ".tsv" \/ format_clean = "tsv" -> "to_csv_tab"
                      [] a.path \in {".xls", ".xlsx"}
                         \/ format_clean \in {"xlsx", "xls", "excel"} -> "to_excel"
                      [] OTHER -> "",
                    "file", a.path),
                IF a.verbose
                THEN _display_line(opts, <<"U+1F4E6", " ", "Wrote file", " ", a.path>>,
                                   <<>>, NoColors)
                ELSE <<>>),
           opts)

\* The methods that set options (disable_checks, enable_checks,
\* reset_format, set_format, set_mode); they are the same in both
\* accessors.  The registry changes as far as the operation got, and the
\* object is returned unless it raised.
AfterSetting(self, r) ==
    Outcome(r.exc, IF r.exc = "none" THEN self ELSE NoData, <<>>, r.options)

Checks_settings(op, opts, self, a) ==
    AfterSetting(self,
        CASE op = "disable_checks" -> disable_checks(opts, a.enable_asserts)
          [] op = "enable_checks" -> enable_checks(opts, a.enable_asserts)
          [] op = "reset_format" -> reset_format(opts)
          [] op = "set_format" -> set_format(opts, a.kwargs)
          [] OTHER -> set_mode(opts, a.enable_checks, a.enable_asserts))

Checks_print_time_elapsed(opts, self, a) ==
    ReturnSelf(self,
        print_time_elapsed(opts, a.start_time, a.elapsed, a.lead_in, a.units), opts)
-----------------------------------------------------------------------------
(* utils.py                                                                 *)

\* _lambda_to_string reads the source lines of the condition with
\* inspect.getsourcelines, which raises OSError for a function whose source
\* cannot be found (or TypeError for a callable that is no Python function).
_lambda_to_string(condition, has_source) ==
    IF has_source THEN Step("none", <<"lambda", " ", condition.s>>, <<>>)
    ELSE Step("OSError", <<>>, <<>>)

FailColors(opts, lead_in) ==
    IF lead_in
    THEN Colors(PyNone, PyNone, opts["fail_message_fg_color"], opts["fail_message_bg_color"])
    ELSE Colors(opts["fail_message_fg_color"], opts["fail_message_bg_color"], PyNone, PyNone)

PassColors(opts, lead_in) ==
    IF lead_in
    THEN Colors(PyNone, PyNone, opts["pass_message_fg_color"], opts["pass_message_bg_color"])
    ELSE Colors(opts["pass_message_fg_color"], opts["pass_message_bg_color"], PyNone, PyNone)

\* The back quotes of the source's message are written as apostrophes.
NullsPresent == <<"Nulls present (to disable, pass 'assert_not_null=False')">>

\* _has_nulls: val is whether data has nulls; with nulls it raises or shows
\* the failure.
_has_nulls(opts, data, fail_message, raise_exception, exception_to_raise) ==
    IF ~is_table(data)
    THEN [exc |-> "AttributeError", msg |-> <<>>, val |-> FALSE, ev |-> <<>>]
    ELSE IF isna_any(data)
         THEN IF raise_exception
              THEN [exc |-> exception_to_raise,
                    msg |-> fail_message \o <<": ">> \o NullsPresent,
                    val |-> TRUE, ev |-> <<Ran("isna")>>]
              ELSE [exc |-> "none", msg |-> <<>>, val |-> TRUE,
                    ev |-> <<Ran("isna")>>
                           \o _display_line(opts, NullsPresent, fail_message,
                                            FailColors(opts, TRUE))]
         ELSE [exc |-> "none", msg |-> <<>>, val |-> FALSE, ev |-> <<Ran("isna")>>]

\* dtype is "str", "datetime", "timedelta", "int" or "float"; the columns of
\* the model are int64 or float64.
_series_is_type(data, c, dtype) ==
    CASE dtype \in {"str", "datetime", "timedelta"} -> FALSE
      [] dtype = "int" -> dtype_of(data, c) = "int64"
      [] OTHER -> dtype_of(data, c) = "float64"

_is_type(data, dtype) ==
    \A j \in 1..Len(data.columns) : _series_is_type(data, data.columns[j], dtype)

-----------------------------------------------------------------------------
(* DataFrameChecks.py: the assertions.                                      *)

\* A message argument, or the method's default when the call passes none.
msg_or(m, default) == IF m = DefaultName THEN default ELSE m

\* exception_to_raise, or the method's default when the call passes none.
exc_or(e, default) == IF e = "" THEN default ELSE e

\* The step a condition makes: it was evaluated and gave result.
Evaluated(result) == Step("none", result, <<Ran("condition")>>)

\* (df < max).all().all(), or <= with or_equal_to: a null compares False.
all_less(data, max, or_equal_to) ==
    \A c \in Cells(data) : ~c.isna /\ (c.v < max \/ (or_equal_to /\ c.v = max))

all_greater(data, min, or_equal_to) ==
    \A c \in Cells(data) : ~c.isna /\ (c.v > min \/ (or_equal_to /\ c.v = min))

\* condition(data).  The conditions a caller passes to assert_data:
\*   true         lambda df: True
\*   false        lambda df: False
\*   shape[0]>1   lambda df: df.shape[0] > 1
\*   missing      lambda df: df["missing"].sum() > 0, which raises KeyError
\* and the conditions of the specialised assertions, named by their body in
\* the source; min, max, nrows, other and dtype are arguments of the call a.
call_condition(condition, a, data) ==
    CASE condition.s = "true" -> Evaluated(TRUE)
      [] condition.s = "false" -> Evaluated(FALSE)
      [] condition.s = "shape[0]>1" -> Evaluated(Len(data.rows) > 1)
      [] condition.s = "missing" -> Step("KeyError", FALSE, <<Ran("condition")>>)
      [] condition.s = "df.isna().all().all()" -> Evaluated(\A c \in Cells(data) : c.isna)
      [] condition.s = "(df > min).all().all()" -> Evaluated(all_greater(data, a.bound, FALSE))
      [] condition.s = "(df >= min).all().all()" -> Evaluated(all_greater(data, a.bound, TRUE))
      [] condition.s = "(df < max).all().all()" -> Evaluated(all_less(data, a.bound, FALSE))
      [] condition.s = "(df <= max).all().all()" -> Evaluated(all_less(data, a.bound, TRUE))
      [] condition.s = "(df < 0).all().all()" -> Evaluated(all_less(data, 0, FALSE))
      [] condition.s = "(df > 0).all().all()" -> Evaluated(all_greater(data, 0, FALSE))
      [] condition.s = "df.isna().any().any() == False" -> Evaluated(isna_any(data) = FALSE)
      [] condition.s \in {"df.shape[0] == nrows", "df.shape[0] == other.shape[0]"} ->
           Evaluated(Len(data.rows) = a.nrows)
      [] condition.s = "df.duplicated().sum() == 0" -> Evaluated(duplicated_sum(data) = 0)
      [] OTHER -> Evaluated(_is_type(data, a.dtype))

\* The arguments of an assertion with the defaults of its signature where
\* the call passes none.
AssertArgs(a, fail_message, pass_message, exception_to_raise) ==
    [a EXCEPT !.fail_message = msg_or(a.fail_message, fail_message),
              !.pass_message = msg_or(a.pass_message, pass_message),
              !.exception_to_raise = exc_or(a.exception_to_raise, exception_to_raise)]

\* The arguments a specialised assertion hands to assert_data: a condition of
\* its own, written in the source of the package, which is not shown.
SpecialArgs(a, condition, fail_message, pass_message, exception_to_raise) ==
    [AssertArgs(a, fail_message, pass_message, exception_to_raise)
       EXCEPT !.condition = PyFunction(condition), !.has_source = TRUE,
              !.message_shows_condition = FALSE]

\* The part of assert_data after the condition is evaluated: the report.
assert_report(opts, self, c, str, a) ==
    IF c.exc # "none" THEN Raise(c.exc, <<>>, c.ev, opts)
    ELSE IF str.exc # "none" THEN Raise(str.exc, <<>>, c.ev, opts)
    ELSE IF ~c.val /\ a.raise_exception
    THEN Raise(a.exception_to_raise,
               a.fail_message
               \o (IF str.val # <<>> /\ a.message_shows_condition
                   THEN <<" :">> \o str.val ELSE <<>>),
               c.ev, opts)
    ELSE IF ~c.val \/ a.verbose
    THEN Outcome("none", self,
             c.ev \o
             _display_line(opts,
                 IF a.message_shows_condition THEN str.val
                 ELSE IF c.val THEN a.pass_message ELSE a.fail_message,
                 IF ~a.message_shows_condition THEN <<>>
                 ELSE IF c.val THEN a.pass_message ELSE a.fail_message,
                 IF c.val THEN PassColors(opts, a.message_shows_condition)
                 ELSE FailColors(opts, a.message_shows_condition)),
             opts)
    ELSE Outcome("none", self, c.ev, opts)

AssertionFailed == <<" ", "U+3128", " ", "Assertion failed", " ">>

AssertionPassed == <<" ", "U+2714", " ", "Assertion passed", " ">>

\* assert_data with its arguments a complete, on the outcome d of
\* self._obj[subset] if subset else self._obj.
assert_on(opts, self, a, d) ==
    IF ~truthy(get_mode(opts).enable_asserts) THEN Outcome("none", self, <<>>, opts)
    ELSE IF ~callable(a.condition) THEN Raise("TypeError", <<>>, <<>>, opts)
    ELSE IF d.exc # "none" THEN Raise(d.exc, <<>>, <<>>, opts)
    ELSE assert_report(opts, self, call_condition(a.condition, a, d.val),
                       _lambda_to_string(a.condition, a.has_source), a)

DataFrameChecks_assert_data(opts, self, args) ==
    assert_on(opts, self, AssertArgs(args, AssertionFailed, AssertionPassed, "DataError"),
              IF subset_truthy(args.subset) THEN getitem(self, args.subset)
              ELSE Step("none", self, <<>>))

\* A specialised assertion ends with "return self._obj" after the call r of
\* assert_data, unless r raised.
AfterAssert_keeping_result(self, r) == r

AfterAssert(self, r) == [r EXCEPT !.ret = IF r.exc = "none" THEN self ELSE NoData]

Fail(what) == <<" ", "U+3128", " ", what, " ", "failed", " ">>

Pass(what) == <<" ", "U+2714", " ", what, " ", "passed", " ">>

\* The name an assertion has in its default messages.
Assert_what(op) ==
    CASE op = "assert_all_nulls" -> "Assert all nulls"
      [] op = "assert_datetime" -> "Assert datetime"
      [] op = "assert_float" -> "Assert float"
      [] op = "assert_greater_than" -> "Assert minimum"
      [] op = "assert_int" -> "Assert integeer"
      [] op = "assert_less_than" -> "Assert maximum"
      [] op = "assert_negative" -> "Assert negative"
      [] op = "assert_no_nulls" -> "Assert no nulls"
      [] op = "assert_nrows" -> "Assert nrows"
      [] op = "assert_positive" -> "Assert positive"
      [] op = "assert_same_nrows" -> "Assert same_nrows"
      [] op = "assert_str" -> "Assert string"
      [] op = "assert_timedelta" -> "Assert timedelta"
      [] op = "assert_type" -> "Assert type"
      [] OTHER -> "Assert unique"

\* The condition a specialised assertion hands to assert_data.
Assert_condition(op, a) ==
    CASE op = "assert_all_nulls" -> "df.isna().all().all()"
      [] op = "assert_greater_than" ->
           IF a.or_equal_to THEN "(df >= min).all().all()" ELSE "(df > min).all().all()"
      [] op = "assert_less_than" ->
           IF a.or_equal_to THEN "(df <= max).all().all()" ELSE "(df < max).all().all()"
      [] op = "assert_negative" -> "(df < 0).all().all()"
      [] op = "assert_no_nulls" -> "df.isna().any().any() == False"
      [] op = "assert_nrows" -> "df.shape[0] == nrows"
      [] op = "assert_positive" -> "(df > 0).all().all()"
      [] op = "assert_same_nrows" -> "df.shape[0] == other.shape[0]"
      [] op = "assert_unique" -> "df.duplicated().sum() == 0"
      [] OTHER -> "_is_type(df, dtype)"

\* assert_all_nulls, assert_greater_than, assert_less_than, assert_no_nulls,
\* assert_nrows, assert_same_nrows (other is given by the number of its
\* rows) and assert_unique: one call of assert_data.  assert_nrows and
\* assert_same_nrows have no subset.
DataFrameChecks_assert(op, opts, self, a) ==
    AfterAssert(self,
        DataFrameChecks_assert_data(opts, self,
            [SpecialArgs(a, Assert_condition(op, a), Fail(Assert_what(op)),
                         Pass(Assert_what(op)), "DataError")
               EXCEPT !.subset = IF op \in {"assert_nrows", "assert_same_nrows"}
                                 THEN SubsetNone ELSE @]))

\* assert_negative and assert_positive look for nulls first, then assert on
\* the rows of self._obj.dropna().
AfterHasNulls(opts, self, a, h, r) ==
    IF a.assert_no_nulls /\ h.exc # "none" THEN Raise(h.exc, h.msg, h.ev, opts)
    ELSE IF a.assert_no_nulls /\ h.val THEN Outcome("none", self, h.ev, opts)
    ELSE AfterAssert(self, [r EXCEPT !.ev = (IF a.assert_no_nulls THEN h.ev ELSE <<>>) \o @])

DataFrameChecks_assert_sign(op, opts, self, a) ==
    LET b == SpecialArgs(a, Assert_condition(op, a), Fail(Assert_what(op)),
                         Pass(Assert_what(op)), "DataError")
        d == IF subset_truthy(a.subset) THEN getitem(self, a.subset)
             ELSE Step("none", self, <<>>)
    IN IF a.assert_no_nulls /\ d.exc # "none" THEN Raise(d.exc, <<>>, <<>>, opts)
       ELSE AfterHasNulls(opts, self, a,
                _has_nulls(opts, d.val, b.fail_message, b.raise_exception,
                           b.exception_to_raise),
                DataFrameChecks_assert_data(opts, dropna(self), b))

\* assert_type reads the dtypes of the subset for its message before it
\* calls assert_data.  The subset becomes a list: all columns when falsy.
DataFrameChecks_assert_type(opts, self, a) ==
    LET subset == IF ~subset_truthy(a.subset) THEN SubsetList(self.columns)
                  ELSE SubsetList(a.subset.cols)
        d == getitem(self, subset)
        found_dtypes == [j \in 1..Len(d.val.columns) |-> dtype_of(d.val, d.val.columns[j])]
        fail_message ==
            IF msg_or(a.fail_message, <<>>) = <<>>
            THEN <<" ", "U+3128", " ", "Assert type failed: expected ", a.dtype,
                   ", got ">> \o found_dtypes
            ELSE a.fail_message
    IN IF d.exc # "none" THEN Raise(d.exc, <<>>, <<>>, opts)
       ELSE AfterAssert(self,
                DataFrameChecks_assert_data(opts, self,
                    [SpecialArgs(a, Assert_condition("assert_type", a), fail_message,
                                 Pass(Assert_what("assert_type")), "TypeError")
                       EXCEPT !.subset = subset, !.fail_message = fail_message]))

\* The dtype assert_datetime, assert_float, assert_int, assert_str and
\* assert_timedelta call assert_type with.
Assert_dtype(op) ==
    CASE op = "assert_datetime" -> "datetime"
      [] op = "assert_float" -> "float"
      [] op = "assert_int" -> "int"
      [] op = "assert_str" -> "str"
      [] OTHER -> "timedelta"

DataFrameChecks_assert_dtype(op, opts, self, a) ==
    AfterAssert(self,
        DataFrameChecks_assert_type(opts, self,
            [a EXCEPT !.dtype = Assert_dtype(op),
                      !.pass_message = msg_or(@, Pass(Assert_what(op)))]))

-----------------------------------------------------------------------------
(* SeriesChecks.py                                                          *)

SeriesChecks_assert_data(opts, self, args) ==
    assert_on(opts, self, AssertArgs(args, AssertionFailed, AssertionPassed, "DataError"),
              Step("none", self, <<>>))

\* assert_all_nulls, assert_greater_than, assert_less_than, assert_no_nulls,
\* assert_nrows, assert_same_nrows and assert_unique.
SeriesChecks_assert(op, opts, self, a) ==
    AfterAssert(self,
        SeriesChecks_assert_data(opts, self,
            SpecialArgs(a, Assert_condition(op, a), Fail(Assert_what(op)),
                        Pass(Assert_what(op)), "DataError")))

\* assert_negative and assert_positive.
SeriesChecks_assert_sign(op, opts, self, a) ==
    LET b == SpecialArgs(a, Assert_condition(op, a), Fail(Assert_what(op)),
                         Pass(Assert_what(op)), "DataError")
    IN AfterHasNulls(opts, self, a,
           _has_nulls(opts, self, b.fail_message, b.raise_exception, b.exception_to_raise),
           SeriesChecks_assert_data(opts, dropna(self), b))

SeriesChecks_assert_type(opts, self, a) ==
    LET found_dtype == dtype_of(self, self.columns[1])
        fail_message ==
            IF msg_or(a.fail_message, <<>>) = <<>>
            THEN <<" ", "U+3128", " ", "Assert type failed: expected ", a.dtype,
                   ", got ", found_dtype>>
            ELSE a.fail_message
    IN AfterAssert(self,
           SeriesChecks_assert_data(opts, self,
               [SpecialArgs(a, Assert_condition("assert_type", a), fail_message,
                            Pass(Assert_what("assert_type")), "TypeError")
                  EXCEPT !.fail_message = fail_message]))

\* assert_datetime, assert_float, assert_int, assert_str and assert_timedelta.
SeriesChecks_assert_dtype(op, opts, self, a) ==
    AfterAssert(self,
        SeriesChecks_assert_type(opts, self,
            [a EXCEPT !.dtype = Assert_dtype(op),
                      !.pass_message = msg_or(@, Pass(Assert_what(op)))]))

\* describe, head, hist, memory_usage, ndups, nnulls, nrows, plot, print,
\* tail and write apply fn and hand the one-column DataFrame of what it
\* gives to the method of that name of the DataFrame accessor, with these
\* arguments.  ndups and plot hand fn on, so it is applied twice.
DelegateArgs(op, self, a) ==
    [a EXCEPT !.fn = IF op \in {"ndups", "plot"} THEN a.fn ELSE PyFunction("identity"),
              !.subset = IF op = "hist" THEN SubsetList(<<>>) ELSE SubsetNone,
              !.check_name = SeriesChecks_check_name(op, self, a),
              !.by_column = IF op = "nnulls" THEN FALSE ELSE @]

\* describe, head, memory_usage, ndups, nrows, print and tail.
SeriesChecks_delegate(op, opts, self, a) ==
    LET m == _apply_modifications(self, a.fn, SubsetNone)
    IN IF m.exc # "none" THEN Raise(m.exc, <<>>, m.ev, opts)
       ELSE AfterDelegate(self, m.ev,
                DataFrameChecks_check(op, opts, pd_DataFrame(m.val),
                                      DelegateArgs(op, self, a)))

SeriesChecks_hist(opts, self, a) ==
    LET m == _apply_modifications(self, a.fn, SubsetNone)
    IN IF m.exc # "none" THEN Raise(m.exc, <<>>, m.ev, opts)
       ELSE AfterDelegate(self, m.ev,
                DataFrameChecks_hist(opts, pd_DataFrame(m.val),
                                     DelegateArgs("hist", self, a)))

SeriesChecks_nnulls(opts, self, a) ==
    LET m == _apply_modifications(self, a.fn, SubsetNone)
    IN IF m.exc # "none" THEN Raise(m.exc, <<>>, m.ev, opts)
       ELSE AfterDelegate(self, m.ev,
                DataFrameChecks_nnulls(opts, pd_DataFrame(m.val),
                                       DelegateArgs("nnulls", self, a)))

SeriesChecks_plot(opts, self, a) ==
    LET m == _apply_modifications(self, a.fn, SubsetNone)
    IN IF m.exc # "none" THEN Raise(m.exc, <<>>, m.ev, opts)
       ELSE AfterDelegate(self, m.ev,
                DataFrameChecks_plot(opts, pd_DataFrame(m.val),
                                     DelegateArgs("plot", self, a)))

SeriesChecks_write(opts, self, a) ==
    LET m == _apply_modifications(self, a.fn, SubsetNone)
    IN IF m.exc # "none" THEN Raise(m.exc, <<>>, m.ev, opts)
       ELSE AfterDelegate(self, m.ev,
                DataFrameChecks_write(opts, pd_DataFrame(m.val),
                                      DelegateArgs("write", self, a)))

SeriesChecks_get_mode(opts, self, a) ==
    AfterDelegate(self, <<>>,
        DataFrameChecks_get_mode(opts, pd_DataFrame(self),
            [a EXCEPT !.check_name = SeriesChecks_check_name("get_mode", self, a)]))

SeriesChecks_info(opts, self, a) ==
    IF truthy(get_mode(opts).enable_checks)
    THEN ReturnSelf(self,
             [call_method(_apply_modifications(self, a.fn, SubsetNone), "print", "info", "")
                EXCEPT !.ev =
                   (IF SeriesChecks_check_name("info", self, a) # <<>>
                    THEN _display_table_title(opts, SeriesChecks_check_name("info", self, a))
                    ELSE <<>>) \o @],
             opts)
    ELSE Outcome("none", self, <<>>, opts)

-----------------------------------------------------------------------------
(* The state machine: a method chain.  Each action is one call of a method  *)
(* on the object the chain holds; Chain hands the object the call returned  *)
(* to the next call.                                                        *)

\* The data a chain starts from.
Frames ==
    {DataFrame(<<"a", "b">>, <<<<Cell(1), Cell(10)>>, <<Cell(1), Cell(10)>>>>),
     DataFrame(<<"a", "b">>, <<<<Cell(1), Cell(1)>>, <<Cell(-1), NaN>>>>),
     Series("a", <<Cell(1), Cell(10)>>),
     Series("a", <<Cell(-1), NaN>>),
     Series("a", <<Cell(1), Cell(1), Cell(1)>>)}

\* The values a caller passes as fn: four functions and a str.
Fns == {PyFunction("identity"), PyFunction("dropna"), PyFunction("iloc[1:]"),
        PyFunction("missing"), PyStr("df*2")}

\* The values a caller passes as subset.
Subsets == {SubsetNone, SubsetStr("a"), SubsetList(<<"a">>), SubsetStr("zz"),
            SubsetList(<<>>), SubsetStr("")}

Sock == <<"U+1F9E6", " ", "Sock">>

\* The calls of a check: one argument away from the defaults d, or all three.
CheckArgs(d) ==
    {[d EXCEPT !.fn = f] : f \in Fns}
    \cup {[d EXCEPT !.subset = x] : x \in Subsets}
    \cup {[d EXCEPT !.check_name = c] : c \in {DefaultName, <<>>, Sock}}
    \cup {[d EXCEPT !.fn = PyFunction("dropna"), !.subset = SubsetStr("a"),
                              !.check_name = Sock]}

\* A few of them, for the checks that differ in their check_fn only.
FewCheckArgs(d) ==
    {d, [d EXCEPT !.fn = PyFunction("missing")],
     [d EXCEPT !.fn = PyStr("df*2")], [d EXCEPT !.subset = SubsetStr("a")],
     [d EXCEPT !.check_name = Sock]}

\* The keyword arguments a caller passes to set_format.
Kwarg(arg, value) == [arg |-> arg, value |-> value]

KwargValues ==
    {Kwarg("precision", PyInt(-1)), Kwarg("use_emojis", PyBool(FALSE)),
     Kwarg("bogus", PyInt(1))}

\* At most MaxKwargs of them, no name twice.
Kwargs ==
    {k \in UNION {[1..n -> KwargValues] : n \in 0..MaxKwargs} :
        \A i, j \in DOMAIN k : i # j => k[i].arg # k[j].arg}

Boom == <<"Boom">>

\* The calls of an assertion.
SpecialAssertArgs(d) ==
    {[d EXCEPT !.subset = x, !.raise_exception = r] :
        x \in {SubsetNone, SubsetStr("a"), SubsetStr("zz")}, r \in BOOLEAN}
    \cup {[d EXCEPT !.verbose = TRUE],
          [d EXCEPT !.exception_to_raise = "ValueError"],
          [d EXCEPT !.fail_message = Boom]}

\* A few of them, for the assertions that differ in their dtype only.
FewAssertArgs(d) ==
    {d, [d EXCEPT !.raise_exception = FALSE],
     [d EXCEPT !.subset = SubsetStr("zz")], [d EXCEPT !.verbose = TRUE]}

\* The calls of the method or function op.  elapsed is the time since
\* start_time in milliseconds.
ArgsOf(op, d) ==
    CASE op \in {"columns", "describe", "dtypes", "dtype", "memory_usage", "ncols", "shape"}
           -> FewCheckArgs(d)
      [] op \in {"head", "tail"} -> CheckArgs(d) \cup {[d EXCEPT !.n = 1]}
      [] op = "print" ->
           CheckArgs(d) \cup {[d EXCEPT !.object = Scalar(<<"hello">>),
                                               !.check_name = c] : c \in {DefaultName, Sock}}
                        \cup {[d EXCEPT !.object = Scalar(<<"U+1F9E6">>)]}
      [] op = "nnulls" ->
           CheckArgs(d) \cup {[d EXCEPT !.by_column = FALSE, !.subset = x] :
                             x \in {SubsetNone, SubsetStr("a")}}
      [] op = "column" ->
           {[d EXCEPT !.fn = f, !.column = c] :
               f \in {PyFunction("identity"), PyFunction("dropna"), PyStr("df*2")},
               c \in {SubsetStr("a"), SubsetStr("zz")}}
           \cup {[d EXCEPT !.check_name = Sock]}
      [] op = "plot" -> CheckArgs(d) \cup {[d EXCEPT !.title = <<"Title">>]}
      [] op = "write" ->
           {[d EXCEPT !.path = p, !.format = f] :
               p \in {".csv", ".parquet", ".txt"},
               f \in {"", ".CSV ", "parquet", "bogus"}}
           \cup {[d EXCEPT !.path = ".csv", !.verbose = TRUE, !.fn = f] :
                   f \in {PyFunction("identity"), PyFunction("missing")}}
           \cup {[d EXCEPT !.path = ".txt", !.verbose = TRUE, !.format = f] :
                   f \in {"", "bogus"}}
      [] op = "print_time_elapsed" ->
           {[d EXCEPT !.elapsed = e] :
               e \in {999, 1000, 60000, 60001, 3600000, 3600001}}
           \cup {[d EXCEPT !.elapsed = 1000, !.units = u] :
                   u \in {"s", "ms", "m", "h", "seconds", "milliseconds", "minutes",
                          "hours", "bogus"}}
           \cup {[d EXCEPT !.start_time = "nan"],
                 [d EXCEPT !.lead_in = <<>>]}
      [] op = "get_mode" -> {[d EXCEPT !.check_name = c] : c \in {DefaultName, <<>>, Sock}}
      [] op \in {"disable_checks", "enable_checks"} ->
           {[d EXCEPT !.enable_asserts = b] : b \in {PyBool(TRUE), PyBool(FALSE)}}
      [] op = "set_mode" ->
           {[d EXCEPT !.enable_checks = c, !.enable_asserts = b] :
               c \in {PyBool(TRUE), PyBool(FALSE), PyInt(1)},
               b \in {PyBool(TRUE), PyBool(FALSE)}}
           \cup {[d EXCEPT !.enable_checks = PyBool(FALSE), !.enable_asserts = PyInt(1)]}
      [] op = "reset_format" -> {d}
      [] op = "set_format" -> {[d EXCEPT !.kwargs = k] : k \in Kwargs}
      [] op = "set_custom_print_fn" ->
           {[d EXCEPT !.custom_print_fn = f, !.print_to_stdout = p] :
               f \in {PyNone, PyFunction("log"), PyInt(5)},
               p \in {PyBool(TRUE), PyBool(FALSE)}}
      [] op = "_set_option" ->
           {[d EXCEPT !.option = OptName(p, k), !.value = PyBool(FALSE)] :
               p \in BOOLEAN, k \in {"use_emojis", "bogus"}}
      [] op = "start_timer" -> {[d EXCEPT !.verbose = v] : v \in BOOLEAN}
      [] op = "assert_data" ->
           {[d EXCEPT !.condition = PyFunction("false"), !.raise_exception = r,
                                !.has_source = h, !.message_shows_condition = m] :
               r \in BOOLEAN, h \in BOOLEAN, m \in BOOLEAN}
           \cup {[d EXCEPT !.verbose = v, !.has_source = h,
                                     !.message_shows_condition = m] :
                   v \in BOOLEAN, h \in BOOLEAN, m \in BOOLEAN}
           \cup {[d EXCEPT !.condition = c] :
                   c \in {PyFunction("shape[0]>1"), PyFunction("missing"), PyStr("df.a > 0")}}
           \cup {[d EXCEPT !.subset = x] :
                   x \in {SubsetStr("a"), SubsetList(<<"a">>), SubsetStr("zz")}}
           \cup {[d EXCEPT !.condition = PyFunction("false"), !.fail_message = f,
                                     !.raise_exception = r, !.exception_to_raise = e,
                                     !.message_shows_condition = FALSE] :
                   f \in {Boom, <<>>}, r \in BOOLEAN, e \in {"", "ValueError"}}
      [] op \in {"assert_negative", "assert_positive"} ->
           SpecialAssertArgs(d)
           \cup {[d EXCEPT !.assert_no_nulls = FALSE, !.subset = x,
                                     !.raise_exception = r] :
                   x \in {SubsetNone, SubsetStr("a"), SubsetStr("zz")}, r \in BOOLEAN}
      [] op \in {"assert_greater_than", "assert_less_than"} ->
           SpecialAssertArgs(d)
           \cup {[d EXCEPT !.bound = 1, !.or_equal_to = e] : e \in BOOLEAN}
      [] op \in {"assert_nrows", "assert_same_nrows"} ->
           {[d EXCEPT !.nrows = n, !.raise_exception = r] :
               n \in {0, 2}, r \in BOOLEAN}
           \cup {[d EXCEPT !.nrows = 2, !.verbose = TRUE]}
      [] op = "assert_type" ->
           SpecialAssertArgs(d) \cup {[d EXCEPT !.dtype = t] : t \in {"float", "str"}}
      [] op \in {"assert_all_nulls", "assert_int", "assert_no_nulls", "assert_unique"}
           -> SpecialAssertArgs(d)
      [] op \in {"assert_datetime", "assert_float", "assert_str", "assert_timedelta"}
           -> FewAssertArgs(d)
      [] OTHER -> CheckArgs(d)

Args(op) == ArgsOf(op, DefaultArgs)

\* No call is under way.
NoCall == [op |-> "none", self |-> NoData, args |-> DefaultArgs, exc |-> "none",
           msg |-> <<>>, ret |-> NoData, ev |-> <<>>,
           before |-> _initialize_options(<<>>)]

Init ==
    /\ options = _initialize_options(<<>>)
    /\ is_terminal \in BOOLEAN
    /\ obj \in Frames
    /\ last = NoCall
    /\ muted = FALSE

\* The call op(a) with outcome r is made on the object of the chain.
Call(op, a, r) ==
    /\ last.op = "none"
    /\ last' = [op |-> op, self |-> obj, args |-> a, exc |-> r.exc, msg |-> r.msg,
                ret |-> r.ret, ev |-> r.ev, before |-> options]
    /\ options' = r.options
    /\ muted' = CASE op = "disable_checks" /\ r.exc = "none"
                       /\ a.enable_asserts = DefaultArgs.enable_asserts -> TRUE
                  [] op = "enable_checks" /\ r.exc = "none" -> FALSE
                  [] OTHER -> muted
    /\ UNCHANGED <<is_terminal, obj>>

\* The chain goes on with what the call returned; a call that raised, or a
\* function of the module, leaves the object where it was.
Chain ==
    /\ last.op # "none"
    /\ obj' = IF last.exc = "none" /\ is_table(last.ret) THEN last.ret ELSE obj
    /\ last' = NoCall
    /\ UNCHANGED <<options, is_terminal, muted>>

IsFrame == obj.kind = "DataFrame"

\* The functions of the package that are called without an accessor; they
\* return no object to go on with.
ModuleCall(r, val) ==
    [exc |-> r.exc, msg |-> <<>>, ret |-> val, ev |-> <<>>, options |-> r.options]

\* The methods of the accessors.
Methods ==
    {"assert_data", "assert_type", "assert_all_nulls", "assert_greater_than",
     "assert_less_than", "assert_no_nulls", "assert_nrows", "assert_same_nrows",
     "assert_unique", "assert_negative", "assert_positive", "assert_datetime",
     "assert_float", "assert_int", "assert_str", "assert_timedelta", "describe",
     "head", "memory_usage", "ndups", "nrows", "print", "tail", "function", "shape",
     "hist", "nnulls", "plot", "write", "info", "get_mode", "nunique", "unique",
     "value_counts", "disable_checks", "enable_checks", "print_time_elapsed",
     "reset_format", "set_format", "set_mode", "columns", "dtypes", "ncols", "dtype"}

\* One disjunct for each method of the accessors (.check.<method> of a
\* DataFrame is a method of DataFrameChecks, of a Series of SeriesChecks) and
\* for each function of the package.  nunique, unique and value_counts of a
\* DataFrame take a column.
Next ==
    \/ Chain
    \/ \E a \in Args("assert_data") :
           Call("assert_data", a,
                IF IsFrame THEN DataFrameChecks_assert_data(options, obj, a)
                ELSE SeriesChecks_assert_data(options, obj, a))
    \/ \E a \in Args("assert_type") :
           Call("assert_type", a,
                IF IsFrame THEN DataFrameChecks_assert_type(options, obj, a)
                ELSE SeriesChecks_assert_type(options, obj, a))
    \/ \E a \in Args("assert_all_nulls") :
           Call("assert_all_nulls", a,
                IF IsFrame THEN DataFrameChecks_assert("assert_all_nulls", options, obj, a)
                ELSE SeriesChecks_assert("assert_all_nulls", options, obj, a))
    \/ \E a \in Args("assert_greater_than") :
           Call("assert_greater_than", a,
                IF IsFrame THEN DataFrameChecks_assert("assert_greater_than", options, obj, a)
                ELSE SeriesChecks_assert("assert_greater_than", options, obj, a))
    \/ \E a \in Args("assert_less_than") :
           Call("assert_less_than", a,
                IF IsFrame THEN DataFrameChecks_assert("assert_less_than", options, obj, a)
                ELSE SeriesChecks_assert("assert_less_than", options, obj, a))
    \/ \E a \in Args("assert_no_nulls") :
           Call("assert_no_nulls", a,
                IF IsFrame THEN DataFrameChecks_assert("assert_no_nulls", options, obj, a)
                ELSE SeriesChecks_assert("assert_no_nulls", options, obj, a))
    \/ \E a \in Args("assert_nrows") :
           Call("assert_nrows", a,
                IF IsFrame THEN DataFrameChecks_assert("assert_nrows", options, obj, a)
                ELSE SeriesChecks_assert("assert_nrows", options, obj, a))
    \/ \E a \in Args("assert_same_nrows") :
           Call("assert_same_nrows", a,
                IF IsFrame THEN DataFrameChecks_assert("assert_same_nrows", options, obj, a)
                ELSE SeriesChecks_assert("assert_same_nrows", options, obj, a))
    \/ \E a \in Args("assert_unique") :
           Call("assert_unique", a,
                IF IsFrame THEN DataFrameChecks_assert("assert_unique", options, obj, a)
                ELSE SeriesChecks_assert("assert_unique", options, obj, a))
    \/ \E a \in Args("assert_negative") :
           Call("assert_negative", a,
                IF IsFrame THEN DataFrameChecks_assert_sign("assert_negative", options, obj, a)
                ELSE SeriesChecks_assert_sign("assert_negative", options, obj, a))
    \/ \E a \in Args("assert_positive") :
           Call("assert_positive", a,
                IF IsFrame THEN DataFrameChecks_assert_sign("assert_positive", options, obj, a)
                ELSE SeriesChecks_assert_sign("assert_positive", options, obj, a))
    \/ \E a \in Args("assert_datetime") :
           Call("assert_datetime", a,
                IF IsFrame THEN DataFrameChecks_assert_dtype("assert_datetime", options, obj, a)
                ELSE SeriesChecks_assert_dtype("assert_datetime", options, obj, a))
    \/ \E a \in Args("assert_float") :
           Call("assert_float", a,
                IF IsFrame THEN DataFrameChecks_assert_dtype("assert_float", options, obj, a)
                ELSE SeriesChecks_assert_dtype("assert_float", options, obj, a))
    \/ \E a \in Args("assert_int") :
           Call("assert_int", a,
                IF IsFrame THEN DataFrameChecks_assert_dtype("assert_int", options, obj, a)
                ELSE SeriesChecks_assert_dtype("assert_int", options, obj, a))
    \/ \E a \in Args("assert_str") :
           Call("assert_str", a,
                IF IsFrame THEN DataFrameChecks_assert_dtype("assert_str", options, obj, a)
                ELSE SeriesChecks_assert_dtype("assert_str", options, obj, a))
    \/ \E a \in Args("assert_timedelta") :
           Call("assert_timedelta", a,
                IF IsFrame THEN DataFrameChecks_assert_dtype("assert_timedelta", options, obj, a)
                ELSE SeriesChecks_assert_dtype("assert_timedelta", options, obj, a))
    \/ \E a \in Args("describe") :
           Call("describe", a,
                IF IsFrame THEN DataFrameChecks_check("describe", options, obj, a)
                ELSE SeriesChecks_delegate("describe", options, obj, a))
    \/ \E a \in Args("head") :
           Call("head", a,
                IF IsFrame THEN DataFrameChecks_check("head", options, obj, a)
                ELSE SeriesChecks_delegate("head", options, obj, a))
    \/ \E a \in Args("memory_usage") :
           Call("memory_usage", a,
                IF IsFrame THEN DataFrameChecks_check("memory_usage", options, obj, a)
                ELSE SeriesChecks_delegate("memory_usage", options, obj, a))
    \/ \E a \in Args("ndups") :
           Call("ndups", a,
                IF IsFrame THEN DataFrameChecks_check("ndups", options, obj, a)
                ELSE SeriesChecks_delegate("ndups", options, obj, a))
    \/ \E a \in Args("nrows") :
           Call("nrows", a,
                IF IsFrame THEN DataFrameChecks_check("nrows", options, obj, a)
                ELSE SeriesChecks_delegate("nrows", options, obj, a))
    \/ \E a \in Args("print") :
           Call("print", a,
                IF IsFrame THEN DataFrameChecks_check("print", options, obj, a)
                ELSE SeriesChecks_delegate("print", options, obj, a))
    \/ \E a \in Args("tail") :
           Call("tail", a,
                IF IsFrame THEN DataFrameChecks_check("tail", options, obj, a)
                ELSE SeriesChecks_delegate("tail", options, obj, a))
    \/ \E a \in Args("function") :
           Call("function", a,
                IF IsFrame THEN DataFrameChecks_check("function", options, obj, a)
                ELSE SeriesChecks_check("function", options, obj, a))
    \/ \E a \in Args("shape") :
           Call("shape", a,
                IF IsFrame THEN DataFrameChecks_check("shape", options, obj, a)
                ELSE SeriesChecks_check("shape", options, obj, a))
    \/ \E a \in Args("hist") :
           Call("hist", a,
                IF IsFrame THEN DataFrameChecks_hist(options, obj, a)
                ELSE SeriesChecks_hist(options, obj, a))
    \/ \E a \in Args("nnulls") :
           Call("nnulls", a,
                IF IsFrame THEN DataFrameChecks_nnulls(options, obj, a)
                ELSE SeriesChecks_nnulls(options, obj, a))
    \/ \E a \in Args("plot") :
           Call("plot", a,
                IF IsFrame THEN DataFrameChecks_plot(options, obj, a)
                ELSE SeriesChecks_plot(options, obj, a))
    \/ \E a \in Args("write") :
           Call("write", a,
                IF IsFrame THEN DataFrameChecks_write(options, obj, a)
                ELSE SeriesChecks_write(options, obj, a))
    \/ \E a \in Args("info") :
           Call("info", a,
                IF IsFrame THEN DataFrameChecks_info(options, obj, a)
                ELSE SeriesChecks_info(options, obj, a))
    \/ \E a \in Args("get_mode") :
           Call("get_mode", a,
                IF IsFrame THEN DataFrameChecks_get_mode(options, obj, a)
                ELSE SeriesChecks_get_mode(options, obj, a))
    \/ \E a \in Args(IF IsFrame THEN "column" ELSE "nunique") :
           Call("nunique", a,
                IF IsFrame THEN DataFrameChecks_column_check("nunique", options, obj, a)
                ELSE SeriesChecks_check("nunique", options, obj, a))
    \/ \E a \in Args(IF IsFrame THEN "column" ELSE "unique") :
           Call("unique", a,
                IF IsFrame THEN DataFrameChecks_column_check("unique", options, obj, a)
                ELSE SeriesChecks_check("unique", options, obj, a))
    \/ \E a \in Args(IF IsFrame THEN "column" ELSE "value_counts") :
           Call("value_counts", a,
                IF IsFrame THEN DataFrameChecks_column_check("value_counts", options, obj, a)
                ELSE SeriesChecks_check("value_counts", options, obj, a))
    \/ \E a \in Args("disable_checks") : Call("disable_checks", a, Checks_settings("disable_checks", options, obj, a))
    \/ \E a \in Args("enable_checks") : Call("enable_checks", a, Checks_settings("enable_checks", options, obj, a))
    \/ \E a \in Args("print_time_elapsed") : Call("print_time_elapsed", a, Checks_print_time_elapsed(options, obj, a))
    \/ \E a \in Args("reset_format") : Call("reset_format", a, Checks_settings("reset_format", options, obj, a))
    \/ \E a \in Args("set_format") : Call("set_format", a, Checks_settings("set_format", options, obj, a))
    \/ \E a \in Args("set_mode") : Call("set_mode", a, Checks_settings("set_mode", options, obj, a))
    \/ IsFrame /\ \E a \in Args("columns") :
           Call("columns", a, DataFrameChecks_check("columns", options, obj, a))
    \/ IsFrame /\ \E a \in Args("dtypes") :
           Call("dtypes", a, DataFrameChecks_check("dtypes", options, obj, a))
    \/ IsFrame /\ \E a \in Args("ncols") :
           Call("ncols", a, DataFrameChecks_check("ncols", options, obj, a))
    \/ ~IsFrame /\ \E a \in Args("dtype") :
           Call("dtype", a, SeriesChecks_check("dtype", options, obj, a))
    \/ \E a \in Args("set_custom_print_fn") :
           Call("set_custom_print_fn", a,
                ModuleCall(set_custom_print_fn(options, a.custom_print_fn,
                                               a.print_to_stdout), NoData))
    \/ \E a \in Args("_set_option") :
           Call("_set_option", a, ModuleCall(_set_option(options, a.option, a.value), NoData))
    \/ \E a \in Args("start_timer") :
           LET r == start_timer(options, a.verbose)
           IN Call("start_timer", a, Outcome(r.exc, Scalar(<<r.val>>), r.ev, options))

Spec == Init /\ [][Next]_vars

-----------------------------------------------------------------------------
(* Properties.                                                              *)

Assertions ==
    {"assert_data", "assert_type", "assert_all_nulls", "assert_datetime", "assert_float",
     "assert_greater_than", "assert_int", "assert_less_than", "assert_negative",
     "assert_no_nulls", "assert_nrows", "assert_positive", "assert_same_nrows",
     "assert_str", "assert_timedelta", "assert_unique"}

\* The methods that set options.
Setters == {"disable_checks", "enable_checks", "reset_format", "set_format", "set_mode"}

\* The checks that take fn.
FnMethods == Methods \ (Assertions \cup Setters \cup {"get_mode", "print_time_elapsed"})

\* The mode the call under way was made in.
ChecksOn == truthy(last.before["enable_checks"])

AssertsOn == truthy(last.before["enable_asserts"])

\* The events of the call under way that are output.
Outputs == {i \in DOMAIN last.ev : last.ev[i].e \in OutputEvents}

Happened(e) == \E i \in DOMAIN last.ev : last.ev[i].e = e

\* What the call under way put on the screen, blank lines aside.
Screen ==
    SelectSeq(last.ev, LAMBDA x : x.e \in {"print", "display"} /\ x.segs # <<>>)

\* Some part of the event x has the colours fg on bg.
HasColours(x, fg, bg) ==
    \E i \in DOMAIN x.segs :
        x.segs[i].fg = fg /\ x.segs[i].bg \in {bg, _format_background_color(bg)}

IsPrefix(p, t) == Len(p) <= Len(t) /\ SubSeq(t, 1, Len(p)) = p

\* C1: every method of the accessors that returns, returns the object it
\* was called on, and the object of the chain is as it was, whatever fn and
\* subset are and whether checks are enabled or not.
C1_ReturnsOriginal ==
    (last.op \in Methods /\ last.exc = "none") => (last.ret = last.self /\ obj = last.self)

\* assert_positive, which asserts on a copy without the rows with nulls,
\* returned the object with those rows.
C1_Witness ==
    /\ last.op = "assert_positive" /\ last.exc = "none"
    /\ ~last.args.assert_no_nulls
    /\ Happened("condition")
    /\ dropna(last.self) # last.self
    /\ last.ret = last.self

\* C2: with enable_checks false, no method other than an assertion writes to
\* standard output, to the display or to the custom print function.
C2_NoOutputWhenDisabled ==
    (last.op \in Methods \ Assertions /\ ~ChecksOn) => Outputs = {}

\* C3: with enable_checks false, a check returns at once: fn is not called,
\* nothing is computed and nothing is raised.
C3_InertWhenDisabled ==
    (last.op \in FnMethods /\ ~ChecksOn) => (last.exc = "none" /\ last.ev = <<>>)

\* C4: with enable_asserts false, every assertion returns the original data
\* without raising, without evaluating its condition or looking for nulls,
\* and without output.
C4_AssertsOff ==
    (last.op \in Assertions /\ ~AssertsOn)
        => (last.exc = "none" /\ last.ret = last.self /\ last.ev = <<>>)

\* The call under way is assert_data with a callable condition that is falsy
\* on the data of the subset.
FalsyAssertData ==
    /\ last.op = "assert_data"
    /\ last.args.condition = PyFunction("false")
    /\ (subset_truthy(last.args.subset) /\ last.self.kind = "DataFrame")
           => getitem(last.self, last.args.subset).exc = "none"

C6_MutedAssertData ==
    (muted /\ last.op = "assert_data") => (last.exc = "none" /\ ~Happened("condition"))

\* The call under way is assert_less_than with a value of the subset that is
\* not less than the bound.
FalsyAssertLessThan ==
    /\ last.op = "assert_less_than"
    /\ LET d == IF subset_truthy(last.args.subset) /\ last.self.kind = "DataFrame"
                THEN getitem(last.self, last.args.subset)
                ELSE Step("none", last.self, <<>>)
       IN d.exc = "none"
          /\ ~all_less(d.val, last.args.bound, last.args.or_equal_to)

\* C7: with asserts enabled, an assertion with a falsy condition and
\* raise_exception=True raises exception_to_raise with a message that holds
\* fail_message, and shows nothing.
C7_FalsyRaises ==
    ((FalsyAssertData \/ FalsyAssertLessThan) /\ AssertsOn /\ last.args.raise_exception)
        => /\ last.exc = exc_or(last.args.exception_to_raise, "DataError")
           /\ IsPrefix(msg_or(last.args.fail_message,
                              IF last.op = "assert_data" THEN AssertionFailed
                              ELSE Fail("Assert maximum")),
                       last.msg)
           /\ Outputs = {}

\* C8: with asserts enabled, results shown on screen and a fail_message that
\* is not empty, assert_data with a callable condition shows one banner in
\* the fail colours when the condition is falsy and raise_exception is False,
\* one banner in the pass colours when the condition is truthy and verbose is
\* True, nothing when it is truthy and verbose is False; it does not raise
\* in these cases.
C8_OneBanner ==
    (/\ last.op = "assert_data" /\ AssertsOn
     /\ last.args.condition \in {PyFunction("true"), PyFunction("false")}
     /\ (subset_truthy(last.args.subset) /\ last.self.kind = "DataFrame")
            => getitem(last.self, last.args.subset).exc = "none"
     /\ truthy(last.before["print_to_stdout"])
     /\ last.args.fail_message # <<>>)
        => LET falsy == last.args.condition = PyFunction("false")
           IN /\ (falsy /\ ~last.args.raise_exception)
                    => /\ last.exc = "none"
                       /\ Len(Screen) = 1
                       /\ HasColours(Screen[1], last.before["fail_message_fg_color"],
                                     last.before["fail_message_bg_color"])
              /\ (~falsy /\ last.args.verbose)
                    => /\ last.exc = "none"
                       /\ Len(Screen) = 1
                       /\ HasColours(Screen[1], last.before["pass_message_fg_color"],
                                     last.before["pass_message_bg_color"])
              /\ (~falsy /\ ~last.args.verbose)
                    => (last.exc = "none" /\ Outputs = {})

\* The call under way names an option that is not registered.
UnknownName ==
    \/ last.op = "_set_option" /\ last.args.option.key \notin OptionKeys
    \/ last.op = "set_format"
       /\ \E i \in DOMAIN last.args.kwargs : last.args.kwargs[i].arg \notin OptionKeys

\* C9 as stated: a call that names an option that is not registered raises
\* AttributeError and leaves every option as it was.
C9_UnknownNameChangesNothing ==
    UnknownName => (last.exc = "AttributeError" /\ options = last.before)

\* set_format stops at a keyword argument whose name is not registered or
\* whose value the validator of the option rejects.
Stops(k) == k.arg \notin OptionKeys \/ validate(k.arg, k.value) # "none"

\* C9: _set_option with a name that is not registered raises AttributeError
\* and changes no option.  set_format sets its keyword arguments in the
\* order given and stops at the first one that fails, with AttributeError
\* for a name that is not registered and ValueError for a rejected value:
\* the options named before it have their new values and every other option
\* is as it was.
C9_UnknownNameStopsTheCall ==
    /\ (last.op = "_set_option" /\ UnknownName)
           => (last.exc = "AttributeError" /\ options = last.before)
    /\ (last.op = "set_format" /\ UnknownName)
           => LET kwargs == last.args.kwargs
                  first == CHOOSE i \in DOMAIN kwargs :
                               Stops(kwargs[i]) /\ \A j \in 1..(i - 1) : ~Stops(kwargs[j])
              IN /\ last.exc = IF kwargs[first].arg \notin OptionKeys
                               THEN "AttributeError" ELSE "ValueError"
                 /\ DOMAIN options = DOMAIN last.before
                 /\ \A key \in DOMAIN options :
                        options[key] =
                            IF \E j \in 1..(first - 1) : kwargs[j].arg = key
                            THEN kwargs[CHOOSE j \in 1..(first - 1) : kwargs[j].arg = key].value
                            ELSE last.before[key]

\* set_format(use_emojis=False, bogus=1) raised AttributeError with
\* use_emojis set.
C9_Witness ==
    /\ last.op = "set_format"
    /\ last.args.kwargs = <<Kwarg("use_emojis", PyBool(FALSE)), Kwarg("bogus", PyInt(1))>>
    /\ last.exc = "AttributeError"
    /\ last.before["use_emojis"] = PyBool(TRUE)
    /\ options["use_emojis"] = PyBool(FALSE)

\* The values an option takes by its description: custom_print_fn is a
\* callable or None, the others what their pandas validator lets through.
Accepts(key, value) ==
    IF key = "custom_print_fn" THEN callable(value) \/ value = PyNone
    ELSE validate(key, value) = "none"

\* C10: the value of every option is one its validator accepts, and
\* set_custom_print_fn with a value that is not accepted is rejected and
\* leaves the options as they were.
C10_ValuesValid ==
    /\ \A key \in DOMAIN options : Accepts(key, options[key])
    /\ (last.op = "set_custom_print_fn"
        /\ ~Accepts("custom_print_fn", last.args.custom_print_fn))
           => (last.exc # "none" /\ options = last.before)

\* C11: reset_format leaves every formatting option at its factory default
\* and leaves enable_checks, enable_asserts, custom_print_fn and
\* print_to_stdout as they were; it does not raise.
C11_ResetFormat ==
    last.op = "reset_format"
        => /\ last.exc = "none"
           /\ \A key \in FormatKeys : options[key] = default_value(key)
           /\ \A key \in ModeKeys \cup OutputKeys : options[key] = last.before[key]

\* reset_format ran after a format option and options of the other groups
\* had been changed.
C11_Witness ==
    /\ last.op = "reset_format"
    /\ last.before["use_emojis"] = PyBool(FALSE)
    /\ last.before["enable_checks"] = PyBool(FALSE)
    /\ callable(last.before["custom_print_fn"])
    /\ options["use_emojis"] = PyBool(TRUE)

\* C12: enable_checks(enable_asserts=b) leaves the mode at (True, b) and
\* disable_checks(enable_asserts=b) at (False, b), whatever it was before;
\* b is True when it is not given, and get_mode reads the pair stored.
C12_ModeStored ==
    /\ DefaultArgs.enable_asserts = PyBool(TRUE)
    /\ last.op \in {"enable_checks", "disable_checks"}
          => /\ last.exc = "none"
             /\ get_mode(options) =
                   [enable_checks |-> PyBool(last.op = "enable_checks"),
                    enable_asserts |-> last.args.enable_asserts]

\* disable_checks(enable_asserts=False) ran with both flags true before.
C12_Witness ==
    /\ last.op = "disable_checks"
    /\ last.args.enable_asserts = PyBool(FALSE)
    /\ get_mode(last.before) = [enable_checks |-> PyBool(TRUE),
                                enable_asserts |-> PyBool(TRUE)]
    /\ get_mode(options) = [enable_checks |-> PyBool(FALSE),
                            enable_asserts |-> PyBool(FALSE)]

\* The events of the call under way that are output, in call order.
Rendered == SelectSeq(last.ev, LAMBDA x : x.e \in OutputEvents)

\* The text of the event x: the tokens of its parts one after the other.
RECURSIVE TextOf(_)
TextOf(segs) == IF segs = <<>> THEN <<>> ELSE Head(segs).text \o TextOf(Tail(segs))

Mentions(x, token) == \E j \in DOMAIN TextOf(x.segs) : TextOf(x.segs)[j] = token

TimerNotice == "Timer hasn't been started. Call start_timer() first"

\* C13: start_timer with enable_checks false returns nan, and
\* print_time_elapsed called with nan while enable_checks is true shows the
\* notice that the timer has not been started and no elapsed time.
C13_TimerNotStarted ==
    /\ (last.op = "start_timer" /\ ~ChecksOn) => last.ret = Scalar(<<"nan">>)
    /\ (/\ last.op = "print_time_elapsed" /\ ChecksOn
        /\ last.args.start_time = "nan" /\ last.args.units = "auto"
        /\ truthy(last.before["print_to_stdout"]))
          => /\ \E i \in DOMAIN Rendered : Mentions(Rendered[i], TimerNotice)
             /\ \A i \in DOMAIN Rendered :
                   Rendered[i].segs # <<>> => Mentions(Rendered[i], TimerNotice)

\* The unit the claim has print_time_elapsed choose for elapsed milliseconds.
AutoUnit(elapsed) ==
    CASE elapsed < 1000 -> "milliseconds"
      [] elapsed < 60 * 1000 -> "seconds"
      [] elapsed < 60 * 60 * 1000 -> "minutes"
      [] OTHER -> "hours"

\* The line the call under way shows ends with the unit u.
EndsWithUnit(u) ==
    \E i \in DOMAIN Rendered :
        LET t == TextOf(Rendered[i].segs) IN t # <<>> /\ t[Len(t)] = u

\* C14: with units="auto", print_time_elapsed shows milliseconds below 1 s,
\* seconds from 1 s, minutes from 60 s and hours from 3600 s, these
\* boundaries included.
C14_AutoUnits ==
    (/\ last.op = "print_time_elapsed" /\ ChecksOn
     /\ last.args.start_time # "nan" /\ last.args.units = "auto"
     /\ truthy(last.before["print_to_stdout"]))
       => (last.exc = "none" /\ EndsWithUnit(AutoUnit(last.args.elapsed)))

Units == {"auto", "milliseconds", "ms", "seconds", "s", "minutes", "m", "hours", "h"}

\* C15: with checks enabled, print_time_elapsed raises ValueError and shows
\* nothing for units it does not know, and shows a line that ends with the
\* unit it was given for the units it knows (with the unit it chose for
\* "auto").
C15_Units ==
    (last.op = "print_time_elapsed" /\ ChecksOn /\ truthy(last.before["print_to_stdout"]))
       => IF last.args.units \notin Units
          THEN last.exc = "ValueError" /\ Rendered = <<>>
          ELSE /\ last.exc = "none"
               /\ IF last.args.units = "auto"
                  THEN \E u \in Units \ {"auto"} : EndsWithUnit(u)
                  ELSE EndsWithUnit(last.args.units)

\* print_time_elapsed was called with units it does not know and raised.
C15_Witness ==
    /\ last.op = "print_time_elapsed" /\ ChecksOn
    /\ truthy(last.before["print_to_stdout"])
    /\ last.args.units = "bogus"
    /\ last.exc = "ValueError"


\* The subset the method under way passes to _apply_modifications: the
\* methods of a Series have none, nunique, unique and value_counts of a
\* DataFrame pass their column.
AppliedSubset ==
    IF last.self.kind = "Series" THEN SubsetNone
    ELSE IF last.op \in {"nunique", "unique", "value_counts"} THEN last.args.column
    ELSE last.args.subset

\* The outcome _apply_modifications has on the arguments of the call under way.
Modified == _apply_modifications(last.self, last.args.fn, AppliedSubset)

\* The steps of _apply_modifications among the events ev.
ModificationSteps(ev) == SelectSeq(ev, LAMBDA x : x.e \in {"fn", "subset"})

\* hist and plot do nothing in a terminal: they return before fn is looked at.
PlotInTerminal == last.op \in {"hist", "plot"} /\ is_terminal

\* The method under way applied the modifications: checks were enabled, and
\* it is not a plot in a terminal, function or print, which show other things.
AppliedModifications ==
    /\ last.op \in FnMethods \ {"function", "print"}
    /\ ChecksOn
    /\ ~PlotInTerminal

\* C16: _apply_modifications(data, fn, subset) is fn(data)[subset] when subset
\* is truthy and fn(data) when it is not: fn runs first, exactly once, on the
\* data as passed, the subset is taken from what fn returned, and the object
\* the check was called on is as it was.
C16_TransformThenSubset ==
    (last.op \in FnMethods /\ callable(last.args.fn)) =>
        LET f == call_fn(last.args.fn, last.self) IN
        /\ Cardinality({i \in DOMAIN Modified.ev : Modified.ev[i] = Ran("fn")}) = 1
        /\ Modified.ev[1] = Ran("fn")
        /\ ~subset_truthy(AppliedSubset) => Modified = f
        /\ (subset_truthy(AppliedSubset) /\ f.exc = "none" /\ is_table(f.val)) =>
              /\ Modified.val = getitem(f.val, AppliedSubset).val
              /\ Modified.exc = getitem(f.val, AppliedSubset).exc
              /\ Modified.ev = <<Ran("fn"), Ran("subset")>>
        /\ AppliedModifications => IsPrefix(Modified.ev, ModificationSteps(last.ev))
        /\ obj = last.self

\* nrows counted the rows of column a that are left when the rows with a null
\* are dropped: fewer than column a has.
C16_Witness ==
    /\ last.op = "nrows" /\ last.exc = "none" /\ ChecksOn
    /\ last.args.fn = PyFunction("dropna") /\ subset_truthy(AppliedSubset)
    /\ ModificationSteps(last.ev) = <<Ran("fn"), Ran("subset")>>
    /\ Len(Modified.val.rows) < Len(getitem(last.self, AppliedSubset).val.rows)


\* No function of the caller ran in the call under way: neither fn, nor the
\* check_fn on what fn gave, nor the condition of an assertion.
NoUserFunctionRan == ~Happened("fn") /\ ~Happened("check_fn") /\ ~Happened("condition")

\* C17: with checks enabled, a check that reaches _apply_modifications with
\* an fn that is not callable raises TypeError, and with assertions enabled
\* assert_data with a condition that is not callable raises TypeError; in
\* both cases no function of the caller was called.  (A plot in a terminal
\* returns before it reaches _apply_modifications.)
C17_NotCallableRejected ==
    /\ (last.op \in FnMethods /\ ChecksOn /\ ~PlotInTerminal /\ last.args.fn.ty # "function") =>
          (last.exc = "TypeError" /\ NoUserFunctionRan)
    /\ (last.op = "assert_data" /\ AssertsOn /\ last.args.condition.ty # "function") =>
          (last.exc = "TypeError" /\ NoUserFunctionRan)

\* nrows was given the str "df*2" as fn and raised TypeError.
C17_Witness ==
    /\ last.op = "nrows" /\ ChecksOn
    /\ last.args.fn = PyStr("df*2")
    /\ last.exc = "TypeError" /\ last.ev = <<>>

\* assert_data was given a condition that is not callable and raised TypeError.
C17_WitnessCondition ==
    /\ last.op = "assert_data" /\ AssertsOn
    /\ last.args.condition.ty # "function"
    /\ last.exc = "TypeError" /\ last.ev = <<>>


\* What the call under way forwarded to custom_print_fn, in order.
Forwarded == SelectSeq(last.ev, LAMBDA x : x.e = "print_fn")

\* The call under way is a method called while custom_print_fn is callable.
HasPrintFn == last.op \in Methods /\ callable(last.before["custom_print_fn"])

\* The event x is text without colours, or a table as text.
IsPlainText(x) ==
    /\ x.form \in {"str", "table"}
    /\ \A j \in DOMAIN x.segs : x.segs[j].fg = PyNone /\ x.segs[j].bg = PyNone

\* C18: with a callable custom_print_fn, every check that shows a line of
\* text or a table, and every assertion that shows a message, forwards it to
\* custom_print_fn, whether print_to_stdout is true or not and, when it is,
\* right after it is shown; what is forwarded is plain text (no colours, no
\* HTML or Markdown object), never a blank line, and hist and plot forward
\* neither their title nor their image.
C18_PlainTextForwarded ==
    HasPrintFn =>
        /\ \A i \in DOMAIN Forwarded :
              /\ IsPlainText(Forwarded[i])
              /\ Forwarded[i].segs # <<>> \/ Forwarded[i].table # NoData
        /\ last.op \in {"hist", "plot"} => Forwarded = <<>>
        /\ (AppliedModifications /\ last.exc = "none"
            /\ last.op \notin {"hist", "plot", "info", "write"}) => Forwarded # <<>>
        /\ (last.op \in Assertions /\ AssertsOn /\ last.exc = "none" /\ Screen # <<>>)
              => Forwarded # <<>>
        /\ truthy(last.before["print_to_stdout"]) =>
              \A i \in DOMAIN last.ev :
                  last.ev[i].e = "print_fn" =>
                      (i > 1 /\ last.ev[i - 1].e \in {"print", "display"})


\* The call under way is a method called while print_to_stdout is false.
Quiet == last.op \in Methods /\ ~truthy(last.before["print_to_stdout"])

\* C19: while print_to_stdout is false no method of the accessors writes to
\* standard output or to the notebook display, and a check that has a result
\* to show still forwards it to custom_print_fn when there is one.
C19_QuietScreen ==
    Quiet =>
        /\ \A i \in DOMAIN last.ev : last.ev[i].e \notin {"print", "display"}
        /\ (HasPrintFn /\ AppliedModifications /\ last.exc = "none"
            /\ last.op \notin {"hist", "plot", "write"}) => Forwarded # <<>>


\* The lines of text the call under way showed or forwarded.
Lines == SelectSeq(Rendered, LAMBDA x : x.segs # <<>>)

\* No line of the call under way has a glyph of G.
NoGlyph(G) ==
    \A i \in DOMAIN Lines :
        \A j \in DOMAIN TextOf(Lines[i].segs) : TextOf(Lines[i].segs)[j] \notin G

\* nrows was called with its default name and showed its result.
NrowsShown ==
    /\ last.op = "nrows" /\ ChecksOn /\ last.exc = "none"
    /\ last.args.check_name = DefaultName
    /\ Lines # <<>>

\* C20: while use_emojis is false every line shown or forwarded to
\* custom_print_fn is without its emoji glyphs, the trigram of the default
\* name of nrows included, so that nrows shows "Rows: n"; while use_emojis is
\* true the glyphs are kept.
C20_EmojisFiltered ==
    /\ (last.op \in Methods /\ ~truthy(last.before["use_emojis"])) =>
          /\ NoGlyph(EmojiGlyphs \cup {"U+2630"})
          /\ NrowsShown => \A i \in DOMAIN Lines : TextOf(Lines[i].segs)[1] = "Rows"
    /\ (last.op \in Methods /\ truthy(last.before["use_emojis"])) =>
          /\ NrowsShown => \A i \in DOMAIN Lines : TextOf(Lines[i].segs)[1] = "U+2630"
          /\ (AppliedModifications /\ last.exc = "none" /\ last.args.check_name = Sock
              /\ Lines # <<>>) => \E i \in DOMAIN Lines : Mentions(Lines[i], "U+1F9E6")


\* C21: in a terminal hist and plot of a DataFrame or a Series show nothing,
\* whatever fn, subset, check_name and title are: no title, no image, and
\* nothing for custom_print_fn.
C21_NoPlotInTerminal ==
    (last.op \in {"hist", "plot"} /\ is_terminal) =>
        (Rendered = <<>> /\ ~Happened("savefig"))

\* plot was called in a terminal with a title, with checks enabled and a
\* custom_print_fn, and returned.
C21_Witness ==
    /\ last.op = "plot" /\ is_terminal /\ ChecksOn /\ HasPrintFn
    /\ truthy(last.before["print_to_stdout"])
    /\ last.args.title # <<>>
    /\ last.exc = "none" /\ last.ret = last.self
    /\ Rendered = <<>>


\* The extensions of path that write knows, and the values of format it
\* knows (after lower(), replace(".", "") and strip()).
KnownExtensions == {".csv", ".feather", ".parquet", ".pkl", ".tsv", ".xls", ".xlsx"}

KnownFormats == {".CSV ", ".parquet", "csv", "feather", "parquet", "pickle", "tsv",
                 "xlsx", "xls", "excel"}

\* The call under way wrote a file.
WroteFile == \E i \in DOMAIN last.ev : last.ev[i].form = "file"

\* C22: with checks enabled, write to a path without a known extension, with
\* no format or one that is not known, raises AttributeError, writes no
\* file and shows no "Wrote file" line, verbose or not.
C22_UnknownExtension ==
    (last.op = "write" /\ ChecksOn /\ last.args.path \notin KnownExtensions
     /\ last.args.format \notin KnownFormats) =>
        /\ last.exc = "AttributeError"
        /\ ~WroteFile
        /\ Rendered = <<>>

\* write("out.txt", verbose=True) raised after fn was applied.
C22_Witness ==
    /\ last.op = "write" /\ ChecksOn /\ HasPrintFn
    /\ last.args.path = ".txt" /\ last.args.format = "" /\ last.args.verbose
    /\ last.exc = "AttributeError" /\ Happened("fn")


\* The pandas method that writes the format named f, or the extension f.
WriterOf(f) ==
    CASE f \in {".CSV ", "csv", ".csv"} -> "to_csv"
      [] f \in {"feather", ".feather"} -> "to_feather"
      [] f \in {".parquet", "parquet"} -> "to_parquet"
      [] f \in {"pickle", ".pkl"} -> "to_pickle"
      [] f \in {"tsv", ".tsv"} -> "to_csv_tab"
      [] OTHER -> "to_excel"

\* C23: a format passed to write decides how the file is written, whatever
\* the extension of path is; the extension decides only when format is None.
C23_FormatForced ==
    (last.op = "write" /\ ChecksOn /\ last.exc = "none") =>
        /\ last.args.format \in KnownFormats => Happened(WriterOf(last.args.format))
        /\ (last.args.format = "" /\ last.args.path \in KnownExtensions)
              => Happened(WriterOf(last.args.path))


\* The methods that are one call of _check_data, at once or through the
\* accessor of the column or of the one-column DataFrame.
CheckDataMethods ==
    {"columns", "describe", "dtypes", "function", "head", "memory_usage", "ncols",
     "ndups", "nrows", "print", "shape", "tail", "dtype", "nunique", "unique",
     "value_counts"}

\* What the check_fn of the DataFrame method under way gives on the modified data.
Checked == call_check_fn(DataFrameChecks_check_fn(last.op, last.args), Modified.val)

\* C24: an exception raised by fn or by the check_fn inside _check_data
\* reaches the caller as it was raised; nothing of the check is shown and no
\* option changes.
C24_ExceptionsPropagate ==
    (last.op \in CheckDataMethods /\ ChecksOn /\ last.args.object = NoData) =>
        /\ last.exc # "none" => (Rendered = <<>> /\ options = last.before)
        /\ (callable(last.args.fn) /\ call_fn(last.args.fn, last.self).exc # "none")
              => last.exc = call_fn(last.args.fn, last.self).exc
        /\ (last.self.kind = "DataFrame" /\ Modified.exc = "none"
            /\ last.op \notin {"nunique", "unique", "value_counts"})
              => last.exc = Checked.exc

\* columns was called for one column of a DataFrame, a Series, which has no
\* columns: the AttributeError of the check_fn reached the caller.
C24_Witness ==
    /\ last.op = "columns" /\ ChecksOn /\ last.self.kind = "DataFrame"
    /\ Modified.exc = "none" /\ Happened("check_fn")
    /\ last.exc = "AttributeError" /\ Checked.exc = "AttributeError"
    /\ Rendered = <<>>

\* nrows was called with an fn that raises KeyError.
C24_WitnessFn ==
    /\ last.op = "nrows" /\ ChecksOn /\ last.args.fn = PyFunction("missing")
    /\ last.exc = "KeyError" /\ ~Happened("check_fn")


\* Every output of the call under way comes after fn was applied, and no fn,
\* subset or check_fn step comes after an output.
ModifyComputeDisplay ==
    \A i \in Outputs :
        /\ \E j \in 1..(i - 1) : last.ev[j].e = "fn"
        /\ \A j \in DOMAIN last.ev :
              last.ev[j].e \in {"fn", "subset", "check_fn"} => j < i

\* C25: an enabled check that is no assertion modifies (fn, then subset),
\* computes and displays in this order: nothing of it, title, line or table,
\* is shown before fn and subset were applied, and nothing at all when they
\* raise; info, hist, plot and nnulls included.
C25_ModifyBeforeDisplay ==
    (last.op \in FnMethods /\ ChecksOn) =>
        /\ ModifyComputeDisplay
        /\ (last.op # "print" /\ Modified.exc # "none") => Rendered = <<>>


\* The methods of a Series that hand the one-column DataFrame of fn(series)
\* to the _check_data method of that name of the DataFrame accessor.
Delegated == {"describe", "head", "memory_usage", "ndups", "nrows", "print", "tail"}

\* What the method op of the DataFrame accessor shows for the data, called
\* with the arguments the Series method hands on and no fn.
ShownFor(op, data) ==
    SelectSeq(_check_data(last.before, pd_DataFrame(data),
                          DataFrameChecks_check_fn(op, last.args), PyFunction("identity"),
                          SubsetNone,
                          DataFrameChecks_check_name(op, DelegateArgs(op, last.self, last.args))).ev,
              LAMBDA x : x.e \in OutputEvents)

\* The data the call under way plotted.
Plotted(x) == x.e \in {"hist", "plot"} /\ x.table # NoData

\* C26: a method of a Series applies fn once: what is computed on and shown
\* is check(fn(series)), not check(fn(fn(series))), also by the methods that
\* go on with the DataFrame accessor, such as ndups, plot, head and nrows.
C26_FnOnce ==
    (last.self.kind = "Series" /\ last.op \in FnMethods /\ ChecksOn
     /\ callable(last.args.fn) /\ last.args.object = NoData
     /\ call_fn(last.args.fn, last.self).exc = "none") =>
        /\ last.op \in Delegated =>
              (last.exc = "none"
               /\ Rendered = ShownFor(last.op, call_fn(last.args.fn, last.self).val))
        /\ \A i \in DOMAIN last.ev :
              Plotted(last.ev[i]) =>
                  last.ev[i].table = pd_DataFrame(call_fn(last.args.fn, last.self).val)


\* The columns a sign assertion of a DataFrame is asked about.
Asked == IF subset_truthy(last.args.subset) THEN getitem(last.self, last.args.subset).val
         ELSE last.self

\* A value that is not null and has the wrong sign for the assertion under way.
WrongSign ==
    \E c \in Cells(Asked) :
        ~c.isna /\ IF last.op = "assert_positive" THEN c.v <= 0 ELSE c.v >= 0

\* The assertion under way failed: it raised, or it showed its failure (on
\* the screen, when print_to_stdout is true).
AssertionFailedNow ==
    \/ last.exc # "none"
    \/ \E i \in DOMAIN Lines : Mentions(Lines[i], "failed")

\* C27: with assertions enabled, assert_positive and assert_negative of a
\* DataFrame with assert_no_nulls false fail exactly when a value of the
\* columns of subset that is not null has the wrong sign, whatever nulls the
\* other columns have; with assert_no_nulls true they fail also, and exactly
\* then, when the columns of subset have a null, without evaluating the
\* condition.
C27_SignOfSubset ==
    (last.op \in {"assert_positive", "assert_negative"} /\ AssertsOn
     /\ last.self.kind = "DataFrame" /\ last.args.fail_message = DefaultName
     /\ (last.args.raise_exception \/ truthy(last.before["print_to_stdout"]))
     /\ (subset_truthy(last.args.subset) => getitem(last.self, last.args.subset).exc = "none")) =>
        /\ ~last.args.assert_no_nulls => (AssertionFailedNow <=> WrongSign)
        /\ last.args.assert_no_nulls =>
              /\ AssertionFailedNow <=> (WrongSign \/ isna_any(Asked))
              /\ isna_any(Asked) => ~Happened("condition")


\* The options the call under way sets, in the order it sets them.
Settings ==
    IF last.op = "set_mode"
    THEN <<Kwarg("enable_checks", last.args.enable_checks),
           Kwarg("enable_asserts", last.args.enable_asserts)>>
    ELSE last.args.kwargs

\* The registry opts with the options of kwargs stored, one after the other.
RECURSIVE Stored(_, _)
Stored(opts, kwargs) ==
    IF kwargs = <<>> THEN opts
    ELSE Stored([opts EXCEPT ![kwargs[1].arg] = kwargs[1].value], Tail(kwargs))

\* How many of the settings were stored before one stopped the call.
RECURSIVE Accepted(_)
Accepted(kwargs) ==
    IF kwargs = <<>> \/ Stops(kwargs[1]) THEN 0 ELSE 1 + Accepted(Tail(kwargs))

BannerWithLeadIn ==
    /\ last.op = "assert_data" /\ AssertsOn
    /\ last.args.condition \in {PyFunction("true"), PyFunction("false")}
    /\ last.args.has_source /\ last.args.message_shows_condition
    /\ (subset_truthy(last.args.subset) /\ last.self.kind = "DataFrame")
           => getitem(last.self, last.args.subset).exc = "none"
    /\ truthy(last.before["print_to_stdout"])
    /\ last.args.fail_message # <<>> /\ last.args.pass_message # <<>>
    /\ \/ last.args.condition = PyFunction("false") /\ ~last.args.raise_exception
       \/ last.args.condition = PyFunction("true") /\ last.args.verbose

\* The configured colours of the banner of the call under way.
BannerFg ==
    IF last.args.condition = PyFunction("false")
    THEN last.before["fail_message_fg_color"] ELSE last.before["pass_message_fg_color"]

BannerBg ==
    IF last.args.condition = PyFunction("false")
    THEN last.before["fail_message_bg_color"] ELSE last.before["pass_message_bg_color"]

\* C29: in a terminal, the line of an assertion banner with a lead-in has the
\* lead-in in the configured fail or pass colours (foreground and
\* background), and the main text in its own pair, which is empty for a
\* banner: neither pair takes a colour from the other.
C29_LeadInColours ==
    (BannerWithLeadIn /\ is_terminal) =>
        /\ Len(Screen) = 1 /\ Len(Screen[1].segs) = 3
        /\ Screen[1].segs[1].text = _filter_emojis(last.before, IF last.args.condition = PyFunction("false")
                                                               THEN last.args.fail_message
                                                               ELSE last.args.pass_message)
        /\ Screen[1].segs[1].fg = BannerFg
        /\ Screen[1].segs[1].bg = _format_background_color(BannerBg)
        /\ Screen[1].segs[3].fg = PyNone
        /\ Screen[1].segs[3].bg = _format_background_color(PyNone)

\* The parts of C29 that hold: the background of the lead-in, the main
\* text's pair, and both colours of the lead-in outside a terminal.
C29_LeadInBackground ==
    BannerWithLeadIn =>
        /\ Len(Screen) = 1
        /\ is_terminal =>
              /\ Len(Screen[1].segs) = 3
              /\ Screen[1].segs[1].bg \in {_format_background_color(BannerBg),
                                           _format_background_color(replace_on(BannerBg))}
              /\ Screen[1].segs[1].fg = PyNone
              /\ Screen[1].segs[3].fg = PyNone
              /\ Screen[1].segs[3].bg = _format_background_color(PyNone)
        /\ ~is_terminal => HasColours(Screen[1], BannerFg, BannerBg)

C29_Reached == BannerWithLeadIn /\ is_terminal /\ BannerFg # PyNone


\* The call under way is assert_data with a condition that is a function
\* of constant result, on data its subset can select.
ConstantAssertData ==
    /\ last.op = "assert_data" /\ AssertsOn
    /\ last.args.condition \in {PyFunction("true"), PyFunction("false")}
    /\ (subset_truthy(last.args.subset) /\ last.self.kind = "DataFrame")
           => getitem(last.self, last.args.subset).exc = "none"

\* The same call on a condition whose source text is found.
WithSource ==
    IF last.self.kind = "DataFrame"
    THEN DataFrameChecks_assert_data(last.before, last.self,
                                     [last.args EXCEPT !.has_source = TRUE])
    ELSE SeriesChecks_assert_data(last.before, last.self,
                                  [last.args EXCEPT !.has_source = TRUE])

\* C30: with asserts enabled, assert_data with a truthy callable condition
\* and verbose False returns the data it was called on, raises nothing and
\* shows nothing, whether or not the source text of the condition is found;
\* and whether the source text is found never changes whether an assertion
\* raises.
C30_SourceNeverMatters ==
    ConstantAssertData =>
        /\ (last.args.condition = PyFunction("true") /\ ~last.args.verbose)
              => (last.exc = "none" /\ last.ret = last.self /\ Outputs = {})
        /\ last.exc = WithSource.exc

\* The part of C30 that holds: when the source text is found.
C30_WhenSourceFound ==
    (ConstantAssertData /\ last.args.has_source) =>
        /\ (last.args.condition = PyFunction("true") /\ ~last.args.verbose)
              => (last.exc = "none" /\ last.ret = last.self /\ Outputs = {})
        /\ last.exc = WithSource.exc

\* When the source text is not found the call raises OSError, whatever the
\* condition returned.
C30_WhenSourceMissing ==
    (ConstantAssertData /\ ~last.args.has_source) =>
        (last.exc = "OSError" /\ Outputs = {})

C30_Reached ==
    /\ ConstantAssertData /\ ~last.args.has_source
    /\ last.args.condition = PyFunction("true") /\ ~last.args.verbose

====
